---- MODULE Spec2Model ----
(***************************************************************************)
(* State-machine model of the alert pipeline of the repository:            *)
(*   - NotificationSystem (src/notification_system.py): bounded            *)
(*     asyncio.Queue, one consumer task, start/stop;                       *)
(*   - WalletAnalyzer.process_realtime_transaction_simple_alert            *)
(*     (src/wallet_analyzer.py): one task per stream notification;         *)
(*   - MonitoringService.monitor_token_sells (src/monitoring_service.py):  *)
(*     the periodic sell sweep;                                            *)
(*   - WebSocketManager (src/websocket_manager.py): the stream             *)
(*     subscription manager.                                               *)
(* asyncio is cooperative: one action is the code a task runs between two  *)
(* suspension points (an await that really suspends).                      *)
(***************************************************************************)
EXTENDS Integers, Sequences, FiniteSets, TLC

\* ------------------------------------------------------------------ bounds
\* asyncio.Queue(maxsize=5000), scaled down so that "full" is reachable.
QueueMaxSize == 2
\* Number of stream-notification tasks that can be spawned.
NumRtTasks == 2
\* Number of parsed events the sell sweep processes over the run.
MaxSweepEvents == 2

\* Transaction signatures seen on the stream / in the sweep.
Sigs == {"s1", "s2"}
\* Subscribers of the monitored mint (get_subscribers_for_token).
Chats == {"c1"}
RtTasks == 1 .. NumRtTasks
\* Calls of _update_helius_subscription spawned by add/remove.
NumUpdTasks == 2
\* Last second the clock reaches.
MaxClock == 2
\* Connections the main loop may open.
MaxConnections == 2
\* Largest subscription id the upstream hands out.
MaxHeliusId == 2
\* Cap on the accounts of one subscription (45000 in the source, scaled).
MAX_ACCOUNTS_PER_SUBSCRIPTION == 1
\* Tracked token mints.
Mints == {"m1", "m2"}
UpdTasks == 1 .. NumUpdTasks
\* The call of _update_helius_subscription made inside connect().
ConnectCaller == 0
UpdIds == {ConnectCaller} \cup UpdTasks
\* None, for helius_id and local_request_id.
NoId == 0
HeliusIds == 1 .. MaxHeliusId

\* ------------------------------------------------------------ alert values
AlertTypes == {"activity_alert", "sell_alert"}
Alert(s, c, ty) == [sig |-> s, chat |-> c, type |-> ty]
Alerts == {Alert(s, c, ty) : s \in Sigs, c \in Chats, ty \in AlertTypes}
\* stop() enqueues None as the sentinel.
Sentinel == [sig |-> "-", chat |-> "-", type |-> "None"]

\* A fixed enumeration of the subscriber list, as the for-loop walks it.
RECURSIVE SetToSeq(_)
SetToSeq(S) ==
  IF S = {} THEN <<>>
  ELSE LET x == CHOOSE y \in S : TRUE IN <<x>> \o SetToSeq(S \ {x})

AlertsFor(s, ty) ==
  LET cs == SetToSeq(Chats) IN [i \in 1 .. Len(cs) |-> Alert(s, cs[i], ty)]

VARIABLES
  \* NotificationSystem
  running,             \* self.running
  notification_queue,  \* self.notification_queue (FIFO contents)
  processor_task,      \* position of _process_notification_queue
  processor_exit,      \* how the consumer loop ended
  stop_pc,             \* position of stop()
  \* observation of the dispatcher
  enqueued,            \* per alert: number of times it entered the queue
  attempts,            \* per alert: number of times handed to send_telegram_notification
  at_stop,             \* value of enqueued when stop() was called
  resumed_puts,        \* number of puts that completed after having been suspended
  \* producers
  rt_marker,           \* redis keys PROCESSED_REALTIME_TX_PREFIX + signature
  sell_marker,         \* redis keys PROCESSED_SELL_ALERT_TX_PREFIX + signature
  rt,                  \* per stream task: position in process_realtime_transaction_simple_alert
  mon,                 \* position of monitor_token_sells in its event loop
  mon_left,            \* events the sweep may still process
  \* WebSocketManager
  ws_running,          \* self.running
  start_pc,            \* position of start()
  websocket,           \* self.websocket: "none", "open" or "closed"
  conn,                \* number of connections opened so far
  connect_pc,          \* position of connect() (it holds _connection_lock)
  intended,            \* self.intended_accounts_to_monitor
  helius_id,           \* helius_subscription_details["helius_id"]
  local_request_id,    \* helius_subscription_details["local_request_id"]
  active_filter,       \* helius_subscription_details["active_filter_accounts"]
  upd,                 \* per call of _update_helius_subscription: its position
  wire,                \* requests written to the socket and not yet answered
  now,                 \* int(datetime.now().timestamp())
  dispatched,          \* subscription id of the last notification handed to the analyzer
  \* wallet classification
  cls,                 \* a classification run: its position and its classifications
  cls_in,              \* what the run's last await returned
  \* wallet token states
  wallet_states,       \* rows of the table classified_wallet_token_states
  store,               \* the store_initial_wallet_state tasks
  observed,            \* the last balance observation applied to the table
  \* transaction parser
  meta,                \* the meta of the transaction handed to the parser
  parsed,              \* the result of _calculate_balance_changes(meta, ...)
  details,             \* transaction_details_results of a sweep's batch
  event,               \* the last call of parse_transaction_for_event and its result
  fetch,               \* position and parsed_events of fetch_and_parse_recent_transactions
  \* WebSocketManager background tasks
  ping,                \* _ping_task: position of _ping_loop and seconds waited there
  listen,              \* _listen_task: position of _listen and seconds waited there
  lock_waiting,        \* a second call of connect() is suspended at _connection_lock
  \* MonitoringService: the sweep of one mint
  last_sig,            \* redis value at LAST_PROCESSED_MONITOR_SIG_PREFIX + mint
  chain,               \* number of transactions of the mint on chain
  sweep,               \* monitor_token_sells: its position and locals
  processed_sigs,      \* transactions whose detail was fetched and parsed by a sweep
  \* NotificationSystem: queue capacity and observation of single calls
  maxsize,             \* self.notification_queue.maxsize
  send_failures,       \* number of SEND FAILED logged by send_telegram_notification
  queue_call           \* the last call of queue_notification: what it logged and how it ended

dispatcherVars == <<running, notification_queue, processor_task, processor_exit, stop_pc>>
observeVars == <<enqueued, attempts, at_stop, resumed_puts>>
producerVars == <<rt_marker, sell_marker, rt, mon, mon_left>>
pipelineVars == <<dispatcherVars, observeVars, producerVars>>
subscriptionVars == <<helius_id, local_request_id, active_filter>>
streamVars == <<ws_running, start_pc, websocket, conn, connect_pc, intended,
                subscriptionVars, upd, wire, now>>
classifyVars == <<cls, cls_in>>
stateVars == <<wallet_states, store, observed>>
parserVars == <<meta, parsed>>
parseVars == <<details, event, fetch>>
healthVars == <<ping, listen>>
sweepVars == <<last_sig, chain, sweep, processed_sigs>>
deliveryVars == <<maxsize, send_failures, queue_call>>
nonDeliveryVars == <<streamVars, dispatched, classifyVars, stateVars, parserVars, parseVars,
                     healthVars, lock_waiting, sweepVars>>
nonSweepVars == <<pipelineVars, streamVars, dispatched, classifyVars, stateVars, parserVars,
                  parseVars, healthVars, lock_waiting, deliveryVars>>
nonPipelineVars == <<streamVars, dispatched, classifyVars, stateVars, parserVars, parseVars, healthVars,
  lock_waiting, sweepVars, deliveryVars>>
nonStreamVars == <<pipelineVars, dispatched, classifyVars, stateVars, parserVars, parseVars, healthVars,
  lock_waiting, sweepVars, deliveryVars>>
nonDispatchVars == <<pipelineVars, streamVars, classifyVars, stateVars, parserVars, parseVars, healthVars,
  lock_waiting, sweepVars, deliveryVars>>
nonClassifyVars == <<pipelineVars, streamVars, dispatched, stateVars, parserVars, parseVars, healthVars,
  lock_waiting, sweepVars, deliveryVars>>
nonStateVars == <<pipelineVars, streamVars, dispatched, classifyVars, parserVars, parseVars, healthVars,
  lock_waiting, sweepVars, deliveryVars>>
nonParserVars == <<pipelineVars, streamVars, dispatched, classifyVars, stateVars, parseVars, healthVars,
  lock_waiting, sweepVars, deliveryVars>>
nonParseVars == <<pipelineVars, streamVars, dispatched, classifyVars, stateVars, parserVars,
                  healthVars, lock_waiting, sweepVars, deliveryVars>>
\* what a step of a background task leaves alone, the socket apart
nonHealthVars == <<ws_running, start_pc, conn, connect_pc, intended, subscriptionVars, upd, wire,
                   now, pipelineVars, dispatched, classifyVars, stateVars, parserVars, parseVars,
                   lock_waiting, sweepVars, deliveryVars>>
vars == <<pipelineVars, streamVars, dispatched, classifyVars, stateVars, parserVars, parseVars,
          healthVars, lock_waiting, sweepVars, deliveryVars>>

NoCount == [a \in Alerts |-> 0]
IdleTask == [pc |-> "idle", sig |-> "-", todo |-> <<>>]
IdleMon == [pc |-> "idle", sig |-> "-", todo |-> <<>>]
NoQueueCall ==
  [tick |-> 0, notification |-> Sentinel, qsize |-> 0, warned |-> FALSE, queued |-> FALSE,
   returned |-> "none"]
IdleSweep ==
  [pc |-> "idle", last_processed_sig |-> 0, signatures_info |-> <<>>,
   newest_sig_in_batch |-> 0, parsed_events |-> <<>>, newest_sig |-> 0]

\* A call of _update_helius_subscription: its position and, while it is in a
\* send, its currently_active (prev) and whether its new_account_list is
\* that set (same).
UpdateAt(pc) == [pc |-> pc, prev |-> {}, same |-> FALSE]
IdleUpdate == UpdateAt("idle")

\* No classification run has started.
NoClassification ==
  [engine |-> "none", pc |-> "idle", creator |-> {}, team |-> {}, sniper |-> {},
   insider |-> {}, error |-> FALSE, decimals |-> 0, total_supply_raw |-> 0,
   mintAuthority |-> "None"]

NoMetadata ==
  [decimals |-> -1, total_supply |-> 0, mintAuthority |-> "None", freezeAuthority |-> "None"]

\* What an await of a classification run returned: the metadata, or the rows
\* of a fetch (fetched is FALSE for None, a fetch that failed).
MetadataInput(metadata) ==
  [stage |-> "metadata", fetched |-> metadata.decimals # -1 /\ metadata.total_supply # -1,
   metadata |-> metadata,
   rows |-> <<>>]
RowsInput(stage, fetched, rows) ==
  [stage |-> stage, fetched |-> fetched, metadata |-> NoMetadata, rows |-> rows]
NoInput == RowsInput("none", FALSE, <<>>)

NumStoreTasks == 2
StoreTasks == 1 .. NumStoreTasks
\* A store_initial_wallet_state task that has not been created.
NoStoreTask ==
  [pc |-> "idle", mint_address |-> "None", wallet_address |-> "None",
   classification |-> "None", initial_raw_balance |-> 0]
NoObservation == [mint_address |-> "None", wallet_address |-> "None", new_raw_balance |-> 0]

\* A meta with no token balances, and the parser before it has run.
NoTokenBalances == [preTokenBalances |-> <<>>, postTokenBalances |-> <<>>]
NotParsed == [done |-> FALSE, token_changes |-> {}]

\* A background task that has not been created: conn is the connection the
\* task was created on, timer the seconds it has been in its current wait,
\* why the reason it exited.
NoTask == [pc |-> "none", conn |-> 0, timer |-> 0, why |-> "none"]

\* What parse_transaction_for_event returns: None, its error dict, or an
\* event; "raise" is an exception that leaves the function.
NoEvent == [kind |-> "None", signature |-> "None", timestamp |-> -1, token_changes |-> {}]
\* parse_transaction_for_event has not been called.
NoCall == [called |-> FALSE, i |-> 0, result |-> NoEvent]
\* fetch_and_parse_recent_transactions has not been called; parsed_from is
\* the index in the batch of each element of parsed_events.
IdleFetch == [pc |-> "idle", i |-> 0, parsed_events |-> <<>>, parsed_from |-> <<>>]

\* The services after construction; the transaction at the parser is set by
\* the specification.
ServiceInit ==
  /\ parsed = NotParsed
  /\ ping = NoTask
  /\ lock_waiting = FALSE
  /\ last_sig = 0
  /\ chain = 0
  /\ sweep = IdleSweep
  /\ processed_sigs = {}
  /\ send_failures = 0
  /\ queue_call = NoQueueCall
  /\ listen = NoTask
  /\ event = NoCall
  /\ fetch = IdleFetch
  /\ wallet_states = <<>>
  /\ store = [t \in StoreTasks |-> NoStoreTask]
  /\ observed = NoObservation
  /\ cls = NoClassification
  /\ cls_in = NoInput
  /\ dispatched = NoId
  /\ ws_running = FALSE
  /\ start_pc = "idle"
  /\ websocket = "none"
  /\ conn = 0
  /\ connect_pc = "idle"
  /\ intended = {}
  /\ helius_id = NoId
  /\ local_request_id = NoId
  /\ active_filter = {}
  /\ upd = [u \in UpdIds |-> IdleUpdate]
  /\ wire = <<>>
  /\ now = 1
  /\ running = FALSE
  /\ notification_queue = <<>>
  /\ processor_task = "none"
  /\ processor_exit = "none"
  /\ stop_pc = "idle"
  /\ enqueued = NoCount
  /\ attempts = NoCount
  /\ at_stop = NoCount
  /\ resumed_puts = 0
  /\ rt_marker = {}
  /\ sell_marker = {}
  /\ rt = [t \in RtTasks |-> IdleTask]
  /\ mon = IdleMon
  /\ mon_left = MaxSweepEvents

Init ==
  /\ ServiceInit
  /\ maxsize = QueueMaxSize
  /\ meta = NoTokenBalances
  /\ details = <<>>

\* ------------------------------------------------------------ asyncio.Queue
\* Mutant of QueueFull: a queue built without maxsize is never full.
QueueFull_Unbounded(q) == FALSE

\* Queue.full(): maxsize items are held.
QueueFull(q) == Len(q) >= maxsize

\* Queue.put once it does not (or no longer) suspend(s): append at the tail.
QueuePut(q, n) == Append(q, n)

\* Mutant of QueueGet: a LifoQueue hands out the newest item.
QueueGet_Lifo(q) == [item |-> q[Len(q)], rest |-> SubSeq(q, 1, Len(q) - 1)]

\* Queue.get on a non-empty queue: the head.
QueueGet(q) == [item |-> Head(q), rest |-> Tail(q)]

\* queue_notification called for every alert of `todo` in turn, up to the
\* first call that suspends in put: a stopped dispatcher returns silently,
\* a full queue suspends the caller, otherwise the alert is appended.
RECURSIVE QueueAll(_, _, _)
QueueAll(q, todo, run) ==
  IF todo = <<>> THEN [q |-> q, todo |-> <<>>]
  ELSE IF ~run THEN QueueAll(q, Tail(todo), run)
  ELSE IF QueueFull(q) THEN [q |-> q, todo |-> todo]
  ELSE QueueAll(QueuePut(q, Head(todo)), Tail(todo), run)

Occurrences(q, a) == Cardinality({i \in 1 .. Len(q) : q[i] = a})

\* enqueued after the queue grew from q to q2 at its tail
Counted(q, q2) ==
  [a \in Alerts |-> enqueued[a] + Occurrences(SubSeq(q2, Len(q) + 1, Len(q2)), a)]

\* ------------------------------------------------- NotificationSystem.start
\* start(): if not running, set running and create the consumer task.
\* The model covers one lifecycle of the object (start, then stop).
Start ==
  /\ ~running
  /\ processor_task = "none"
  /\ running' = TRUE
  /\ processor_task' = "created"
  /\ UNCHANGED nonPipelineVars
  /\ UNCHANGED <<notification_queue, processor_exit, stop_pc, observeVars, producerVars>>

\* ------------------------------- NotificationSystem._process_notification_queue
\* notification = get() returned an item: the sentinel breaks the loop, any
\* other item is handed to send_telegram_notification.
ProcessorTake ==
  LET g == QueueGet(notification_queue) IN
  /\ notification_queue' = g.rest
  /\ IF g.item = Sentinel
       THEN /\ processor_task' = "done"
            /\ processor_exit' = "sentinel"
            /\ UNCHANGED attempts
       ELSE /\ processor_task' = "send"
            /\ UNCHANGED processor_exit
            /\ attempts' = [attempts EXCEPT ![g.item] = @ + 1]

\* From the loop condition `while self.running` to the next suspension.
ProcessorLoopTop ==
  IF ~running
    THEN /\ processor_task' = "done"
         /\ processor_exit' = "flag"
         /\ UNCHANGED <<notification_queue, attempts>>
    ELSE IF notification_queue = <<>>
      THEN /\ processor_task' = "get"
           /\ UNCHANGED <<notification_queue, attempts, processor_exit>>
      ELSE ProcessorTake

\* The task runs for the first time, or asyncio.sleep(notification_send_delay)
\* is over: back to the loop condition.
ProcessorRun ==
  /\ processor_task \in {"created", "sleep", "error_sleep"}
  /\ ProcessorLoopTop
  /\ UNCHANGED nonPipelineVars
  /\ UNCHANGED <<running, stop_pc, enqueued, at_stop, resumed_puts, producerVars>>

\* The consumer was suspended in get() on an empty queue and an item arrived.
ProcessorGetWake ==
  /\ processor_task = "get"
  /\ notification_queue # <<>>
  /\ ProcessorTake
  /\ UNCHANGED nonPipelineVars
  /\ UNCHANGED <<running, stop_pc, enqueued, at_stop, resumed_puts, producerVars>>

\* send_telegram_notification returned (it catches every delivery error);
\* task_done(), then sleep.
ProcessorSent ==
  /\ processor_task = "send"
  /\ processor_task' = "sleep"
  /\ UNCHANGED nonPipelineVars
  /\ UNCHANGED <<running, notification_queue, processor_exit, stop_pc, observeVars, producerVars>>

\* -------------------------------------------------- NotificationSystem.stop
\* running = False, then put(None): appended at once unless the queue is full.
StopCall ==
  /\ running
  /\ stop_pc = "idle"
  /\ running' = FALSE
  /\ at_stop' = enqueued
  /\ IF QueueFull(notification_queue)
       THEN /\ stop_pc' = "put"
            /\ UNCHANGED notification_queue
       ELSE /\ stop_pc' = "wait"
            /\ notification_queue' = QueuePut(notification_queue, Sentinel)
  /\ UNCHANGED nonPipelineVars
  /\ UNCHANGED <<processor_task, processor_exit, enqueued, attempts, resumed_puts, producerVars>>

\* The suspended put(None) completes once the queue has room.
StopPut ==
  /\ stop_pc = "put"
  /\ ~QueueFull(notification_queue)
  /\ notification_queue' = QueuePut(notification_queue, Sentinel)
  /\ stop_pc' = "wait"
  /\ UNCHANGED nonPipelineVars
  /\ UNCHANGED <<running, processor_task, processor_exit, observeVars, producerVars>>

\* wait_for(processor_task, 10.0): the consumer has finished.
StopJoin ==
  /\ stop_pc = "wait"
  /\ processor_task = "done"
  /\ stop_pc' = "returned"
  /\ UNCHANGED nonPipelineVars
  /\ UNCHANGED <<running, notification_queue, processor_task, processor_exit, observeVars, producerVars>>

\* wait_for times out: the consumer is cancelled at its suspension point and
\* leaves the loop through `except asyncio.CancelledError: break`.
StopTimeout ==
  /\ stop_pc = "wait"
  /\ processor_task # "done"
  /\ processor_task' = "done"
  /\ processor_exit' = "cancelled"
  /\ stop_pc' = "returned"
  /\ UNCHANGED nonPipelineVars
  /\ UNCHANGED <<running, notification_queue, observeVars, producerVars>>

\* ------------------ WalletAnalyzer.process_realtime_transaction_simple_alert
\* _handle_incoming_rpc_message spawns one task per transactionNotification.
\* Every modelled transaction is an action of a classified wallet of a mint
\* that has subscribers, so an alert is due for it. Tasks are taken in index
\* order.
Notify(t, s) ==
  /\ rt[t].pc = "idle"
  /\ \A u \in RtTasks : u < t => rt[u].pc # "idle"
  /\ rt' = [rt EXCEPT ![t] = [pc |-> "exists", sig |-> s, todo |-> <<>>]]
  /\ UNCHANGED nonPipelineVars
  /\ UNCHANGED <<dispatcherVars, observeVars, rt_marker, sell_marker, mon, mon_left>>

\* if await self._redis_exists(processed_key): return
RtExists(t) ==
  /\ rt[t].pc = "exists"
  /\ rt' = [rt EXCEPT ![t].pc = IF rt[t].sig \in rt_marker THEN "done" ELSE "setex"]
  /\ UNCHANGED nonPipelineVars
  /\ UNCHANGED <<dispatcherVars, observeVars, rt_marker, sell_marker, mon, mon_left>>

\* await self._redis_setex(processed_key, PROCESSED_TX_TTL, "processed")
RtSetex(t) ==
  /\ rt[t].pc = "setex"
  /\ rt_marker' = rt_marker \cup {rt[t].sig}
  /\ rt' = [rt EXCEPT ![t].pc = "resolve"]
  /\ UNCHANGED nonPipelineVars
  /\ UNCHANGED <<dispatcherVars, observeVars, sell_marker, mon, mon_left>>

\* The producer's loop `for alert in ...: await queue_notification(alert)`
\* run from queue q over todo; it ends or suspends in a put.
ProducerQueues(q, todo) ==
  LET r == QueueAll(q, todo, running) IN
  /\ notification_queue' = r.q
  /\ enqueued' = Counted(notification_queue, r.q)

\* Parsing, get_classified_wallets and get_subscribers_for_token have
\* returned (ok), or one of them returned nothing or raised (~ok: the handler
\* returns, or logs the exception, and queues nothing); with ok the alerts are
\* built and queued.
RtResolve(t, ok) ==
  /\ rt[t].pc = "resolve"
  /\ IF ok
       THEN LET todo == AlertsFor(rt[t].sig, "activity_alert")
                r == QueueAll(notification_queue, todo, running) IN
            /\ ProducerQueues(notification_queue, todo)
            /\ rt' = [rt EXCEPT ![t].pc = IF r.todo = <<>> THEN "done" ELSE "put",
                                ![t].todo = r.todo]
       ELSE /\ rt' = [rt EXCEPT ![t].pc = "done"]
            /\ UNCHANGED <<notification_queue, enqueued>>
  /\ UNCHANGED nonPipelineVars
  /\ UNCHANGED <<running, processor_task, processor_exit, stop_pc, attempts, at_stop,
                 resumed_puts, rt_marker, sell_marker, mon, mon_left>>

\* The put the task was suspended in completes; the loop goes on.
RtPut(t) ==
  /\ rt[t].pc = "put"
  /\ ~QueueFull(notification_queue)
  /\ LET q1 == QueuePut(notification_queue, Head(rt[t].todo))
         r == QueueAll(q1, Tail(rt[t].todo), running) IN
     /\ notification_queue' = r.q
     /\ enqueued' = Counted(notification_queue, r.q)
     /\ rt' = [rt EXCEPT ![t].pc = IF r.todo = <<>> THEN "done" ELSE "put",
                         ![t].todo = r.todo]
  /\ resumed_puts' = resumed_puts + 1
  /\ UNCHANGED nonPipelineVars
  /\ UNCHANGED <<running, processor_task, processor_exit, stop_pc, attempts, at_stop,
                 rt_marker, sell_marker, mon, mon_left>>

\* ------------------------------------ MonitoringService.monitor_token_sells
\* The next parsed event of the sweep: a sell of the monitored mint by a
\* classified wallet, with signature s.
MonEvent(s) ==
  /\ mon.pc = "idle"
  /\ mon_left > 0
  /\ mon' = [pc |-> "exists", sig |-> s, todo |-> <<>>]
  /\ mon_left' = mon_left - 1
  /\ UNCHANGED nonPipelineVars
  /\ UNCHANGED <<dispatcherVars, observeVars, rt_marker, sell_marker, rt>>

\* if await self._redis_exists(processed_key): continue
MonExists ==
  /\ mon.pc = "exists"
  /\ mon' = IF mon.sig \in sell_marker THEN IdleMon ELSE [mon EXCEPT !.pc = "subs"]
  /\ UNCHANGED nonPipelineVars
  /\ UNCHANGED <<dispatcherVars, observeVars, rt_marker, sell_marker, rt, mon_left>>

\* get_subscribers_for_token returned; one notification per subscriber is queued.
MonSubs ==
  /\ mon.pc = "subs"
  /\ LET todo == AlertsFor(mon.sig, "sell_alert")
         r == QueueAll(notification_queue, todo, running) IN
     /\ ProducerQueues(notification_queue, todo)
     /\ mon' = [mon EXCEPT !.pc = IF r.todo = <<>> THEN "setex" ELSE "put", !.todo = r.todo]
  /\ UNCHANGED nonPipelineVars
  /\ UNCHANGED <<running, processor_task, processor_exit, stop_pc, attempts, at_stop,
                 resumed_puts, rt_marker, sell_marker, rt, mon_left>>

MonPut ==
  /\ mon.pc = "put"
  /\ ~QueueFull(notification_queue)
  /\ LET q1 == QueuePut(notification_queue, Head(mon.todo))
         r == QueueAll(q1, Tail(mon.todo), running) IN
     /\ notification_queue' = r.q
     /\ enqueued' = Counted(notification_queue, r.q)
     /\ mon' = [mon EXCEPT !.pc = IF r.todo = <<>> THEN "setex" ELSE "put", !.todo = r.todo]
  /\ resumed_puts' = resumed_puts + 1
  /\ UNCHANGED nonPipelineVars
  /\ UNCHANGED <<running, processor_task, processor_exit, stop_pc, attempts, at_stop,
                 rt_marker, sell_marker, rt, mon_left>>

\* await self._redis_setex(processed_key, PROCESSED_TX_TTL_SECONDS, "processed")
MonMark ==
  /\ mon.pc = "setex"
  /\ sell_marker' = sell_marker \cup {mon.sig}
  /\ mon' = IdleMon
  /\ UNCHANGED nonPipelineVars
  /\ UNCHANGED <<dispatcherVars, observeVars, rt_marker, rt, mon_left>>

\* -------------------------------------------------------------- specification
Next ==
  \/ Start
  \/ ProcessorRun
  \/ ProcessorGetWake
  \/ ProcessorSent
  \/ StopCall
  \/ StopPut
  \/ StopJoin
  \/ StopTimeout
  \/ \E t \in RtTasks, s \in Sigs : Notify(t, s)
  \/ \E t \in RtTasks : RtExists(t)
  \/ \E t \in RtTasks : RtSetex(t)
  \/ \E t \in RtTasks, ok \in BOOLEAN : RtResolve(t, ok)
  \/ \E t \in RtTasks : RtPut(t)
  \/ \E s \in Sigs : MonEvent(s)
  \/ MonExists
  \/ MonSubs
  \/ MonPut
  \/ MonMark

Spec == Init /\ [][Next]_vars

\* ============================================================ delivery failures
\* NotificationSystem.send_telegram_notification as called by the consumer
\* loop (src/notification_system.py).  An error is what bot.send_message
\* raised.
SendErrors == {"Forbidden", "BadRequest", "NetworkError", "TelegramError", "Exception"}

\* Mutant of SendTelegramNotification: no `except Exception` clause.
SendTelegramNotification_NoCatchAll(error) ==
  IF error = "Exception" THEN "raised" ELSE "returned"

\* the except clauses of send_telegram_notification: each logs SEND FAILED
\* and falls through to the end of the function
SendTelegramNotification(error) == "returned"

\* send_telegram_notification ended with bot.send_message raising `error`:
\* when it returns, task_done() and the delay; an exception out of it is
\* caught by the loop's `except Exception`, which sleeps 5 seconds
ProcessorSendFailed(error) ==
  /\ processor_task = "send"
  /\ send_failures' = send_failures + 1
  /\ processor_task' = IF SendTelegramNotification(error) = "returned"
                         THEN "sleep" ELSE "error_sleep"
  /\ UNCHANGED nonDeliveryVars
  /\ UNCHANGED <<running, notification_queue, processor_exit, stop_pc, observeVars,
                 producerVars, maxsize, queue_call>>

\* The dispatcher with the stream tasks as its producers.  They queue
\* NumRtTasks alerts at most, fewer than the queue holds with a put
\* suspended, so none of them is ever suspended in put.
DeliveryNext ==
  \/ Start
  \/ ProcessorRun
  \/ ProcessorGetWake
  \/ ProcessorSent
  \/ \E error \in SendErrors : ProcessorSendFailed(error)
  \/ StopCall
  \/ StopPut
  \/ StopJoin
  \/ StopTimeout
  \/ \E t \in RtTasks, s \in Sigs : Notify(t, s)
  \/ \E t \in RtTasks : RtExists(t)
  \/ \E t \in RtTasks : RtSetex(t)
  \/ \E t \in RtTasks, ok \in BOOLEAN : RtResolve(t, ok)

DeliverySpec == Init /\ [][DeliveryNext]_vars

\* ============================================================== queue capacity
\* NotificationSystem.queue_notification called by a producer, on a queue
\* large enough for 90% of its capacity to be a whole number of items that
\* is neither the capacity nor one below it (5000 in the source, scaled).
CapacityMaxSize == 20
\* calls of queue_notification that may enter the queue over a run
MaxQueued == CapacityMaxSize + 1
CapacityAlerts == {Alert("s1", "c1", "activity_alert")}

\* Mutant of NotificationAccepted: no check of self.running.
NotificationAccepted_Always(run) == TRUE

\* `if not self.running: return`
NotificationAccepted(run) == run

\* Mutant of OverNinetyPercent: `>=`.
OverNinetyPercent_AtLeast(qsize, size) == qsize * 10 >= size * 9

\* qsize() > maxsize * 0.9 (the float product is exact or above the whole
\* number below it for the sizes used here and for 5000)
OverNinetyPercent(qsize, size) == qsize * 10 > size * 9

\* queue_notification up to its return or to the suspension of put(): a
\* stopped dispatcher returns, else the warning is logged when the queue is
\* over 90% full, and put() appends unless the queue is full
QueueNotification(n) ==
  /\ queue_call.returned # "suspended"
  /\ enqueued[n] < MaxQueued
  /\ LET qsize == Len(notification_queue)
         call == [tick |-> 1 - queue_call.tick, notification |-> n, qsize |-> qsize,
                  warned |-> FALSE, queued |-> FALSE, returned |-> "None"]
     IN  IF ~NotificationAccepted(running)
           THEN /\ queue_call' = call
                /\ UNCHANGED <<notification_queue, enqueued>>
           ELSE LET warned == OverNinetyPercent(qsize, maxsize)
                IN  IF QueueFull(notification_queue)
                      THEN /\ queue_call' = [call EXCEPT !.warned = warned,
                                                         !.returned = "suspended"]
                           /\ UNCHANGED <<notification_queue, enqueued>>
                      ELSE /\ queue_call' = [call EXCEPT !.warned = warned, !.queued = TRUE]
                           /\ notification_queue' = QueuePut(notification_queue, n)
                           /\ enqueued' = [enqueued EXCEPT ![n] = @ + 1]
  /\ UNCHANGED nonDeliveryVars
  /\ UNCHANGED <<running, processor_task, processor_exit, stop_pc, attempts, at_stop,
                 resumed_puts, producerVars, maxsize, send_failures>>

\* the suspended put() of queue_notification completes once the queue has room
QueueNotificationResumed ==
  /\ queue_call.returned = "suspended"
  /\ ~QueueFull(notification_queue)
  /\ notification_queue' = QueuePut(notification_queue, queue_call.notification)
  /\ enqueued' = [enqueued EXCEPT ![queue_call.notification] = @ + 1]
  /\ queue_call' = [queue_call EXCEPT !.queued = TRUE, !.returned = "None"]
  /\ UNCHANGED nonDeliveryVars
  /\ UNCHANGED <<running, processor_task, processor_exit, stop_pc, attempts, at_stop,
                 resumed_puts, producerVars, maxsize, send_failures>>

CapacityInit ==
  /\ ServiceInit
  /\ meta = NoTokenBalances
  /\ details = <<>>
  /\ maxsize = CapacityMaxSize

CapacityNext ==
  \/ Start
  \/ ProcessorRun
  \/ ProcessorGetWake
  \/ ProcessorSent
  \/ StopCall
  \/ StopPut
  \/ StopJoin
  \/ StopTimeout
  \/ \E n \in CapacityAlerts : QueueNotification(n)
  \/ QueueNotificationResumed

CapacitySpec == CapacityInit /\ [][CapacityNext]_vars

\* ======================================================== WebSocketManager
\* The url attribute read by connect() is taken to be the one __init__ sets,
\* and the names the notification branch of the message handler reads are
\* taken to be bound by its elided parsing.  A send raises exactly when the
\* socket has been closed under it.

\* A transactionSubscribe request; its id is "sub_tx_main_<ts>".
SubscribeRequest(ts, accounts) ==
  [method |-> "transactionSubscribe", ts |-> ts, helius_id |-> NoId,
   accounts |-> accounts]

\* A transactionUnsubscribe request; its id is "unsub_tx_<helius_id>_<ts>".
UnsubscribeRequest(hid, ts) ==
  [method |-> "transactionUnsubscribe", ts |-> ts, helius_id |-> hid,
   accounts |-> {}]

\* Mutant of Truncate: the cut keeps one account more than the maximum.
Truncate_OffByOne(S) ==
  IF Cardinality(S) <= MAX_ACCOUNTS_PER_SUBSCRIPTION
  THEN {S}
  ELSE {T \in SUBSET S : Cardinality(T) = MAX_ACCOUNTS_PER_SUBSCRIPTION + 1}

\* Mutant of Truncate: the list is sent whole.
Truncate_Whole(S) == {S}

\* new_account_list[:MAX_ACCOUNTS_PER_SUBSCRIPTION] of list(set): which
\* accounts survive depends on the set's iteration order.
Truncate(S) ==
  IF Cardinality(S) <= MAX_ACCOUNTS_PER_SUBSCRIPTION
  THEN {S}
  ELSE {T \in SUBSET S : Cardinality(T) = MAX_ACCOUNTS_PER_SUBSCRIPTION}

Finished(u) == IF u = ConnectCaller THEN IdleUpdate ELSE UpdateAt("done")

Sending(u) == upd[u].pc \in {"send_sub", "send_unsub"}

\* _update_helius_subscription from its entry to its first suspension, called
\* by u while the socket is open or not; sent is what the socket has carried
\* unanswered so far.
UpdateHeliusSubscription(u, open, sent) ==
  IF ~open \/ intended = active_filter
  THEN /\ upd' = [upd EXCEPT ![u] = Finished(u)]
       /\ wire' = sent
       /\ UNCHANGED subscriptionVars
  ELSE IF intended = {}
  THEN IF helius_id # NoId
       THEN /\ wire' = Append(sent, UnsubscribeRequest(helius_id, now))
            /\ upd' = [upd EXCEPT ![u] = [UpdateAt("send_unsub") EXCEPT !.prev = active_filter]]
            /\ UNCHANGED subscriptionVars
       ELSE /\ active_filter' = {}
            /\ upd' = [upd EXCEPT ![u] = Finished(u)]
            /\ wire' = sent
            /\ UNCHANGED <<helius_id, local_request_id>>
  ELSE \E new_account_list \in Truncate(intended) :
         /\ local_request_id' = now
         /\ active_filter' = new_account_list
         /\ wire' = Append(sent, SubscribeRequest(now, new_account_list))
         /\ upd' = [upd EXCEPT ![u] = [pc |-> "send_sub", prev |-> active_filter,
                                     same |-> new_account_list = active_filter]]
         /\ UNCHANGED helius_id

WsStart ==
  /\ ~ws_running
  /\ start_pc = "idle"
  /\ ws_running' = TRUE
  /\ start_pc' = "loading"
  /\ UNCHANGED <<websocket, conn, connect_pc, intended, subscriptionVars, upd, wire, now>>
  /\ UNCHANGED nonStreamVars

\* A failed load leaves the set as it is, which is the case mints = intended.
LoadInitialIntendedSubscriptions(mints_to_track) ==
  /\ start_pc = "loading"
  /\ intended' = mints_to_track
  /\ start_pc' = "started"
  /\ UNCHANGED <<ws_running, websocket, conn, connect_pc, subscriptionVars, upd, wire, now>>
  /\ UNCHANGED nonStreamVars

WsStop ==
  /\ ws_running
  /\ start_pc = "started"
  /\ ws_running' = FALSE
  /\ start_pc' = "stopped"
  /\ websocket' = IF websocket = "open" THEN "closed" ELSE websocket
  /\ connect_pc' = "idle"
  /\ upd' = [upd EXCEPT ![ConnectCaller] = IdleUpdate]
  /\ UNCHANGED <<conn, intended, subscriptionVars, wire, now>>
  /\ UNCHANGED nonStreamVars

\* _run_with_reconnect is about to call connect().  The source elides its
\* body and describes it: connect, wait for the listen task, sleep on
\* disconnect.  The sleep lasts WEBSOCKET_RECONNECT_DELAY seconds, so a send
\* suspended on the closed socket has raised before connect() is called again.
RunWithReconnect ==
  /\ ws_running
  /\ start_pc = "started"
  /\ conn < MaxConnections
  /\ \A u \in UpdTasks : ~Sending(u)

\* Mutant of ConnectCall: the state of the old subscription is kept.
ConnectCall_KeepsState ==
  /\ RunWithReconnect
  /\ connect_pc = "idle"
  /\ websocket # "open"
  /\ connect_pc' = "connecting"
  /\ UNCHANGED <<ws_running, start_pc, websocket, conn, intended, subscriptionVars, upd, wire, now>>
  /\ UNCHANGED nonStreamVars

\* Mutant of ConnectCall: the intended set is cleared with the rest.
ConnectCall_ClearsIntended ==
  /\ RunWithReconnect
  /\ connect_pc = "idle"
  /\ websocket # "open"
  /\ helius_id' = NoId
  /\ local_request_id' = NoId
  /\ active_filter' = {}
  /\ intended' = {}
  /\ connect_pc' = "connecting"
  /\ UNCHANGED <<ws_running, start_pc, websocket, conn, upd, wire, now>>
  /\ UNCHANGED nonStreamVars

\* connect() up to its wait for the socket.
ConnectCall ==
  /\ RunWithReconnect
  /\ connect_pc = "idle"
  /\ websocket # "open"
  /\ helius_id' = NoId
  /\ local_request_id' = NoId
  /\ active_filter' = {}
  /\ connect_pc' = "connecting"
  /\ UNCHANGED <<ws_running, start_pc, websocket, conn, intended, upd, wire, now>>
  /\ UNCHANGED nonStreamVars

ConnectOpen ==
  /\ connect_pc = "connecting"
  /\ websocket' = "open"
  /\ conn' = conn + 1
  /\ UpdateHeliusSubscription(ConnectCaller, TRUE, <<>>)
  /\ connect_pc' = IF upd'[ConnectCaller].pc = "idle" THEN "idle" ELSE "subscribing"
  /\ UNCHANGED <<ws_running, start_pc, intended, now>>
  /\ UNCHANGED nonStreamVars

ConnectFailed ==
  /\ connect_pc = "connecting"
  /\ websocket' = "none"
  /\ connect_pc' = "idle"
  /\ UNCHANGED <<ws_running, start_pc, conn, intended, subscriptionVars, upd, wire, now>>
  /\ UNCHANGED nonStreamVars

\* The socket closes: by the peer, or by the ping or receive timeout.
Disconnect ==
  /\ websocket = "open"
  /\ websocket' = "closed"
  /\ UNCHANGED <<ws_running, start_pc, conn, connect_pc, intended, subscriptionVars, upd, wire, now>>
  /\ UNCHANGED nonStreamVars

\* create_task(self._update_helius_subscription()) when running.
SpawnUpdate ==
  IF ws_running
  THEN /\ \E u \in UpdTasks : upd[u].pc = "idle"
       /\ LET u == CHOOSE v \in UpdTasks :
                     upd[v].pc = "idle" /\ \A w \in UpdTasks : upd[w].pc = "idle" => v <= w
          IN upd' = [upd EXCEPT ![u] = UpdateAt("ready")]
  ELSE UNCHANGED upd

AddAccountToMonitor(account_address) ==
  /\ account_address \notin intended
  /\ intended' = intended \cup {account_address}
  /\ SpawnUpdate
  /\ UNCHANGED <<ws_running, start_pc, websocket, conn, connect_pc, subscriptionVars, wire, now>>
  /\ UNCHANGED nonStreamVars

RemoveAccountToMonitor(account_address) ==
  /\ account_address \in intended
  /\ intended' = intended \ {account_address}
  /\ SpawnUpdate
  /\ UNCHANGED <<ws_running, start_pc, websocket, conn, connect_pc, subscriptionVars, wire, now>>
  /\ UNCHANGED nonStreamVars

\* A spawned update task runs to its send, or to its end.
UpdateRun(u) ==
  /\ upd[u].pc = "ready"
  /\ UpdateHeliusSubscription(u, websocket = "open", wire)
  /\ UNCHANGED <<ws_running, start_pc, websocket, conn, connect_pc, intended, now>>
  /\ UNCHANGED nonStreamVars

\* Mutant of SubscribeSent: the except clause does not revert.
SubscribeSent_NoRollback(u) ==
  /\ upd[u].pc = "send_sub"
  /\ upd' = [upd EXCEPT ![u] = Finished(u)]
  /\ connect_pc' = IF u = ConnectCaller THEN "idle" ELSE connect_pc
  /\ UNCHANGED <<ws_running, start_pc, websocket, conn, intended, subscriptionVars, wire, now>>
  /\ UNCHANGED nonStreamVars

\* The send of a subscribe request returns, or raises on a closed socket.
SubscribeSent(u) ==
  /\ upd[u].pc = "send_sub"
  /\ active_filter' = IF websocket = "open" THEN active_filter ELSE upd[u].prev
  /\ upd' = [upd EXCEPT ![u] = Finished(u)]
  /\ connect_pc' = IF u = ConnectCaller THEN "idle" ELSE connect_pc
  /\ UNCHANGED <<ws_running, start_pc, websocket, conn, intended, helius_id, local_request_id, wire, now>>
  /\ UNCHANGED nonStreamVars

\* The send of an unsubscribe request returns or raises.
UnsubscribeSent(u) ==
  /\ upd[u].pc = "send_unsub"
  /\ active_filter' = {}
  /\ upd' = [upd EXCEPT ![u] = Finished(u)]
  /\ connect_pc' = IF u = ConnectCaller THEN "idle" ELSE connect_pc
  /\ UNCHANGED <<ws_running, start_pc, websocket, conn, intended, helius_id, local_request_id, wire, now>>
  /\ UNCHANGED nonStreamVars

\* The response branch of _handle_incoming_rpc_message, for the response to
\* the oldest unanswered request; the upstream answers a subscribe with the
\* subscription id helius_sub_id and an unsubscribe with true.
HandleIncomingRpcMessage(helius_sub_id) ==
  /\ websocket = "open"
  /\ wire # <<>>
  /\ wire' = Tail(wire)
  /\ LET request == Head(wire) IN
       IF request.method = "transactionSubscribe"
       THEN /\ helius_id' = IF request.ts = local_request_id THEN helius_sub_id ELSE helius_id
            /\ UNCHANGED <<local_request_id, active_filter>>
       ELSE /\ helius_sub_id = 1
            /\ IF request.ts = helius_id
               THEN helius_id' = NoId /\ local_request_id' = NoId /\ active_filter' = {}
               ELSE UNCHANGED subscriptionVars
  /\ UNCHANGED <<ws_running, start_pc, websocket, conn, connect_pc, intended, upd, now>>
  /\ UNCHANGED nonStreamVars

\* Mutant of HandleNotification: every notification is dispatched.
HandleNotification_Unchecked(helius_sub_id) ==
  /\ websocket = "open"
  /\ dispatched' = helius_sub_id
  /\ UNCHANGED nonDispatchVars

\* The notification branch of _handle_incoming_rpc_message, for a
\* transactionNotification of subscription helius_sub_id that carries
\* transaction data and a signature.
HandleNotification(helius_sub_id) ==
  /\ websocket = "open"
  /\ dispatched' = IF helius_sub_id = helius_id THEN helius_sub_id ELSE dispatched
  /\ UNCHANGED nonDispatchVars

\* A second passes.
Tick ==
  /\ now < MaxClock
  /\ now' = now + 1
  /\ UNCHANGED <<ws_running, start_pc, websocket, conn, connect_pc, intended, subscriptionVars, upd, wire>>
  /\ UNCHANGED nonStreamVars

StreamNext ==
  \/ WsStart
  \/ \E mints_to_track \in SUBSET Mints : LoadInitialIntendedSubscriptions(mints_to_track)
  \/ WsStop
  \/ ConnectCall
  \/ ConnectOpen
  \/ ConnectFailed
  \/ Disconnect
  \/ \E account_address \in Mints : AddAccountToMonitor(account_address)
  \/ \E account_address \in Mints : RemoveAccountToMonitor(account_address)
  \/ \E u \in UpdTasks : UpdateRun(u)
  \/ \E u \in UpdIds : SubscribeSent(u)
  \/ \E u \in UpdIds : UnsubscribeSent(u)
  \/ \E helius_sub_id \in HeliusIds : HandleIncomingRpcMessage(helius_sub_id)
  \/ Tick

StreamSpec == Init /\ [][StreamNext]_vars

\* The stream manager together with the notifications the upstream sends,
\* while the manager is not stopped and within one second of the clock.
DispatchNext ==
  \/ WsStart
  \/ \E mints_to_track \in SUBSET Mints : LoadInitialIntendedSubscriptions(mints_to_track)
  \/ ConnectCall
  \/ ConnectOpen
  \/ ConnectFailed
  \/ Disconnect
  \/ \E account_address \in Mints : AddAccountToMonitor(account_address)
  \/ \E account_address \in Mints : RemoveAccountToMonitor(account_address)
  \/ \E u \in UpdTasks : UpdateRun(u)
  \/ \E u \in UpdIds : SubscribeSent(u)
  \/ \E u \in UpdIds : UnsubscribeSent(u)
  \/ \E helius_sub_id \in HeliusIds : HandleIncomingRpcMessage(helius_sub_id)
  \/ \E helius_sub_id \in HeliusIds : HandleNotification(helius_sub_id)

DispatchSpec == Init /\ [][DispatchNext]_vars

\* ============================================================ connection lock
\* connect() called a second time while the reconnect loop's call may hold
\* _connection_lock (src/websocket_manager.py, lines 71-97).  The lock is held
\* from the first line of connect() to its return: it is held exactly while
\* connect_pc is not "idle".

\* `async with self._connection_lock` finds the lock held: the call suspends.
ConnectBlocked ==
  /\ ws_running
  /\ connect_pc # "idle"
  /\ ~lock_waiting
  /\ lock_waiting' = TRUE
  /\ UNCHANGED <<streamVars, pipelineVars, dispatched, classifyVars, stateVars, parserVars,
                 parseVars, healthVars, sweepVars, deliveryVars>>

\* Mutant of ConnectAlreadyOpen: the call that got the lock connects without
\* looking at the socket.
ConnectAlreadyOpen_Connects ==
  /\ lock_waiting
  /\ connect_pc = "idle"
  /\ websocket = "open"
  /\ lock_waiting' = FALSE
  /\ helius_id' = NoId
  /\ local_request_id' = NoId
  /\ active_filter' = {}
  /\ connect_pc' = "connecting"
  /\ UNCHANGED <<ws_running, start_pc, websocket, conn, intended, upd, wire, now>>
  /\ UNCHANGED <<pipelineVars, dispatched, classifyVars, stateVars, parserVars, parseVars,
                 healthVars, sweepVars, deliveryVars>>

\* The suspended call gets the lock and finds the socket open: return True.
ConnectAlreadyOpen ==
  /\ lock_waiting
  /\ connect_pc = "idle"
  /\ websocket = "open"
  /\ lock_waiting' = FALSE
  /\ UNCHANGED <<streamVars, pipelineVars, dispatched, classifyVars, stateVars, parserVars,
                 parseVars, healthVars, sweepVars, deliveryVars>>

\* The suspended call gets the lock and finds no open socket: connect() up to
\* its wait for the socket, as in ConnectCall.
ConnectResumed ==
  /\ lock_waiting
  /\ connect_pc = "idle"
  /\ websocket # "open"
  /\ conn < MaxConnections
  /\ \A u \in UpdTasks : ~Sending(u)
  /\ lock_waiting' = FALSE
  /\ helius_id' = NoId
  /\ local_request_id' = NoId
  /\ active_filter' = {}
  /\ connect_pc' = "connecting"
  /\ UNCHANGED <<ws_running, start_pc, websocket, conn, intended, upd, wire, now>>
  /\ UNCHANGED <<pipelineVars, dispatched, classifyVars, stateVars, parserVars, parseVars,
                 healthVars, sweepVars, deliveryVars>>

LockNext ==
  \/ WsStart
  \/ \E mints_to_track \in SUBSET Mints : LoadInitialIntendedSubscriptions(mints_to_track)
  \/ ConnectCall
  \/ ConnectOpen
  \/ ConnectFailed
  \/ Disconnect
  \/ \E account_address \in Mints : AddAccountToMonitor(account_address)
  \/ \E account_address \in Mints : RemoveAccountToMonitor(account_address)
  \/ \E u \in UpdTasks : UpdateRun(u)
  \/ \E u \in UpdIds : SubscribeSent(u)
  \/ \E u \in UpdIds : UnsubscribeSent(u)
  \/ \E helius_sub_id \in HeliusIds : HandleIncomingRpcMessage(helius_sub_id)
  \/ ConnectBlocked
  \/ ConnectAlreadyOpen
  \/ ConnectResumed

LockSpec == Init /\ [][LockNext]_vars

\* ============================================================ background tasks
\* WebSocketManager._ping_loop and _listen (src/websocket_manager.py), the two
\* tasks connect() creates, and the reconnect loop that waits for them.  Time
\* is counted in seconds; a wait that has reached its timeout ends before the
\* next second passes.
PING_INTERVAL_SECONDS == 30
PING_TIMEOUT_SECONDS == 20
RECEIVE_TIMEOUT_SECONDS == PING_INTERVAL_SECONDS * 2 + 10

TaskAt(pc, why) == [pc |-> pc, conn |-> conn, timer |-> 0, why |-> why]

\* _start_background_tasks at the end of connect() has created the task for
\* this connection and the task has not run yet: a task is created only when
\* the one before it is done.
TaskCreated(task) ==
  /\ connect_pc = "idle"
  /\ task.conn < conn
  /\ task.pc \in {"none", "exited"}

\* The condition of both while loops.
LoopCondition == ws_running /\ websocket = "open"

\* _close_ws_safely: the source elides its body; it closes the socket if there
\* is one to close.
CloseWsSafely == IF websocket = "open" THEN "closed" ELSE websocket

\* _ping_loop up to its wait for the pong.
PingLoopStart ==
  /\ TaskCreated(ping)
  /\ ping' = IF LoopCondition THEN TaskAt("pong_wait", "none") ELSE TaskAt("exited", "closed")
  /\ UNCHANGED <<websocket, listen>>
  /\ UNCHANGED nonHealthVars

\* The pong arrives in time: the loop sleeps.
PongReceived ==
  /\ ping.pc = "pong_wait"
  /\ websocket = "open"
  /\ ping' = TaskAt("sleep", "none")
  /\ UNCHANGED <<websocket, listen>>
  /\ UNCHANGED nonHealthVars

\* Mutant of PongTimeout: the loop exits and leaves the socket open.
PongTimeout_LeavesOpen ==
  /\ ping.pc = "pong_wait"
  /\ ping.timer = PING_TIMEOUT_SECONDS
  /\ ping' = TaskAt("exited", "timeout")
  /\ UNCHANGED <<websocket, listen>>
  /\ UNCHANGED nonHealthVars

\* except asyncio.TimeoutError: close and break.
PongTimeout ==
  /\ ping.pc = "pong_wait"
  /\ ping.timer = PING_TIMEOUT_SECONDS
  /\ websocket' = CloseWsSafely
  /\ ping' = TaskAt("exited", "timeout")
  /\ UNCHANGED listen
  /\ UNCHANGED nonHealthVars

\* except ConnectionClosed: break.
PingConnectionClosed ==
  /\ ping.pc = "pong_wait"
  /\ websocket # "open"
  /\ ping' = TaskAt("exited", "closed")
  /\ UNCHANGED <<websocket, listen>>
  /\ UNCHANGED nonHealthVars

\* The sleep ends: the loop tests its condition and pings again, or exits.
PingSleepDone ==
  /\ ping.pc = "sleep"
  /\ ping.timer = PING_INTERVAL_SECONDS
  /\ ping' = IF LoopCondition THEN TaskAt("pong_wait", "none") ELSE TaskAt("exited", "closed")
  /\ UNCHANGED <<websocket, listen>>
  /\ UNCHANGED nonHealthVars

\* _listen up to its first wait for a message: it returns at once without a
\* socket, and closes the socket after a loop it never entered.
ListenStart ==
  /\ TaskCreated(listen)
  /\ listen' = IF LoopCondition THEN TaskAt("recv", "none") ELSE TaskAt("exited", "closed")
  /\ websocket' = IF websocket = "open" /\ ~ws_running THEN CloseWsSafely ELSE websocket
  /\ UNCHANGED ping
  /\ UNCHANGED nonHealthVars

\* A message arrives in time: it is handed to a task of its own and the loop
\* waits for the next.
MessageReceived ==
  /\ listen.pc = "recv"
  /\ websocket = "open"
  /\ listen' = TaskAt("recv", "none")
  /\ UNCHANGED <<websocket, ping>>
  /\ UNCHANGED nonHealthVars

\* except asyncio.TimeoutError: close, break, and the close after the loop.
ReceiveTimeout ==
  /\ listen.pc = "recv"
  /\ listen.timer = RECEIVE_TIMEOUT_SECONDS
  /\ websocket' = CloseWsSafely
  /\ listen' = TaskAt("exited", "timeout")
  /\ UNCHANGED ping
  /\ UNCHANGED nonHealthVars

\* except ConnectionClosed: break, and the close after the loop.
ListenConnectionClosed ==
  /\ listen.pc = "recv"
  /\ websocket # "open"
  /\ websocket' = CloseWsSafely
  /\ listen' = TaskAt("exited", "closed")
  /\ UNCHANGED ping
  /\ UNCHANGED nonHealthVars

Waiting(task) == task.pc \in {"pong_wait", "sleep", "recv"}

Timeout(task) ==
  CASE task.pc = "pong_wait" -> PING_TIMEOUT_SECONDS
    [] task.pc = "sleep" -> PING_INTERVAL_SECONDS
    [] task.pc = "recv" -> RECEIVE_TIMEOUT_SECONDS
    [] OTHER -> 0

Elapse(task) == IF Waiting(task) THEN [task EXCEPT !.timer = @ + 1] ELSE task

\* A second passes for the waits of both tasks.
SecondPasses ==
  /\ Waiting(ping) \/ Waiting(listen)
  /\ \A task \in {ping, listen} : Waiting(task) => task.timer < Timeout(task)
  /\ ping' = Elapse(ping)
  /\ listen' = Elapse(listen)
  /\ UNCHANGED websocket
  /\ UNCHANGED nonHealthVars

\* The listen task of this connection is done: what _run_with_reconnect waits
\* for after a connect() that succeeded.
ListenTaskDone == listen.pc = "exited" /\ listen.conn = conn

\* _stop_background_tasks in the reconnect loop: the source elides its body;
\* it cancels the tasks, of which the ping task may still be waiting.
StopBackgroundTasks ==
  /\ ListenTaskDone
  /\ ping.pc # "exited" \/ ping.conn < conn
  /\ ping' = TaskAt("exited", IF Waiting(ping) THEN "cancelled" ELSE "closed")
  /\ UNCHANGED <<websocket, listen>>
  /\ UNCHANGED nonHealthVars

\* The reconnect loop calls connect() again once both tasks are done.
Reconnect ==
  /\ conn > 0 => ListenTaskDone /\ ping.pc = "exited" /\ ping.conn = conn
  /\ ConnectCall

HealthNext ==
  \/ WsStart
  \/ \E mints_to_track \in SUBSET Mints : LoadInitialIntendedSubscriptions(mints_to_track)
  \/ Reconnect
  \/ ConnectOpen
  \/ ConnectFailed
  \/ SubscribeSent(ConnectCaller)
  \/ Disconnect
  \/ PingLoopStart
  \/ PongReceived
  \/ PongTimeout
  \/ PingConnectionClosed
  \/ PingSleepDone
  \/ ListenStart
  \/ MessageReceived
  \/ ReceiveTimeout
  \/ ListenConnectionClosed
  \/ SecondPasses
  \/ StopBackgroundTasks

HealthSpec == Init /\ [][HealthNext]_vars

\* The event loop runs every task that can run, time passes, and the
\* reconnect loop is not starved; pongs and messages may never arrive.
HealthFairness ==
  /\ WF_vars(PingLoopStart)
  /\ WF_vars(PongTimeout)
  /\ WF_vars(PingConnectionClosed)
  /\ WF_vars(PingSleepDone)
  /\ WF_vars(ListenStart)
  /\ WF_vars(ReceiveTimeout)
  /\ WF_vars(ListenConnectionClosed)
  /\ WF_vars(SecondPasses)
  /\ WF_vars(StopBackgroundTasks)
  /\ WF_vars(Reconnect)

HealthLiveSpec == HealthSpec /\ HealthFairness

\* ======================================================= wallet classification
\* WalletAnalyzer._calculate_classifications (src/wallet_analyzer.py) and
\* TransactionDetector.classify_wallets (src/wallet_classifier.py).  A run
\* awaits the metadata, the holder snapshot, then the listing time and the
\* transactions around it; one action is the code that follows one await.

\* Python floats are binary floating point numbers, rounded to nearest, ties
\* to even.  The model keeps the arithmetic and scales the significand from
\* 53 bits to MantissaBits; a float is <<m, e>>, of value m * 2^e, with
\* 2^(MantissaBits-1) <= m < 2^MantissaBits.
MantissaBits == 8

RECURSIVE Pow2(_)
Pow2(k) == IF k = 0 THEN 1 ELSE 2 * Pow2(k - 1)

RECURSIVE Pow10(_)
Pow10(k) == IF k = 0 THEN 1 ELSE 10 * Pow10(k - 1)

\* The float nearest to (n / d) * 2^e, for n > 0 and d > 0.
RECURSIVE RoundToFloat(_, _, _)
RoundToFloat(n, d, e) ==
  IF n < d * Pow2(MantissaBits - 1) THEN RoundToFloat(2 * n, d, e - 1)
  ELSE IF n >= d * Pow2(MantissaBits) THEN RoundToFloat(n, 2 * d, e + 1)
  ELSE LET q == n \div d
           r == n % d
           q1 == IF 2 * r > d \/ (2 * r = d /\ q % 2 = 1) THEN q + 1 ELSE q
       IN  IF q1 = Pow2(MantissaBits) THEN <<q1 \div 2, e + 1>> ELSE <<q1, e>>

IntTrueDiv(a, b) == RoundToFloat(a, b, 0)                    \* int / int
FloatDiv(x, y) == RoundToFloat(x[1], y[1], x[2] - y[2])      \* float / float
FloatMulInt(x, k) == RoundToFloat(x[1] * k, 1, x[2])         \* float * int
FloatAdd(x, y) ==                                            \* float + float
  LET e == IF x[2] < y[2] THEN x[2] ELSE y[2]
  IN  RoundToFloat(x[1] * Pow2(x[2] - e) + y[1] * Pow2(y[2] - e), 1, e)
FloatGeInt(x, k) ==                                          \* float >= k
  IF x[2] >= 0 THEN x[1] * Pow2(x[2]) >= k ELSE x[1] >= k * Pow2(0 - x[2])

TEAM_HOLDING_PERCENT_THRESHOLD == 5
INSIDER_WINDOW_MINUTES == 10
SNIPER_WINDOW_SECONDS == 10               \* src/wallet_classifier.py
WalletAnalyzer_SNIPER_WINDOW_SECONDS == 15  \* src/wallet_analyzer.py
KNOWN_PROGRAM_IDS == {"TokenkegQfeZyiNwAJbNbGKPFXCWuBvf9Ss623VQ5DA"}

MaxHolderAccounts == 2
MaxTransactions == 2
Wallets == {"w1", "w2"}
Owners == Wallets \cup KNOWN_PROGRAM_IDS
MintAuthorities == {"None", "w1"} \cup KNOWN_PROGRAM_IDS
FreezeAuthorities == {"None", "w2"}
\* decimals / total_supply: -1 stands for None (metadata that is missing or
\* lacks the field), -2 for a negative number
DecimalsValues == {-2, -1, 0, 2}
SupplyValues == {-2, -1, 0, 60, 100}
\* raw amounts of holder accounts; -2 stands for an amount that is not positive
AmountValues == {-2, 1, 2, 3, 60}
\* seconds after the listing time: inside, outside and at the end of the windows
TxOffsets == {0, 10, 14, 16, 600, 660}

MetadataValues ==
  [decimals : DecimalsValues, total_supply : SupplyValues,
   mintAuthority : MintAuthorities, freezeAuthority : FreezeAuthorities]
SeqsUpTo(S, n) == UNION {[1 .. k -> S] : k \in 0 .. n}
HolderValues(n) == SeqsUpTo([owner : Owners, amount : AmountValues], n)
TransactionValues(n) == SeqsUpTo([wallet : Wallets, offset : TxOffsets, is_buy : BOOLEAN], n)

\* owner_raw_balances[owner] of the analyzer: the sum of the raw amounts
\* that are positive
RECURSIVE OwnerRawBalance(_, _)
OwnerRawBalance(holders_raw, owner) ==
  IF holders_raw = <<>> THEN 0
  ELSE (IF Head(holders_raw).owner = owner /\ Head(holders_raw).amount > 0
        THEN Head(holders_raw).amount ELSE 0)
       + OwnerRawBalance(Tail(holders_raw), owner)

\* the keys of the aggregate: the owners of the accounts with a positive amount
HolderOwners(holders_raw) ==
  {holders_raw[i].owner : i \in {j \in DOMAIN holders_raw : holders_raw[j].amount > 0}}

\* percentage >= TEAM_HOLDING_PERCENT_THRESHOLD, as the analyzer computes it
AnalyzerTeamPercentage(total_raw, decimals, total_supply_raw) ==
  LET total_supply_decimal == IntTrueDiv(total_supply_raw, Pow10(decimals))
      balance_decimal == IntTrueDiv(total_raw, Pow10(decimals))
  IN  FloatMulInt(FloatDiv(balance_decimal, total_supply_decimal), 100)

\* owner_balances_decimal[owner] of the detector: a float sum, account by
\* account, of raw_amount / 10^decimals; <<0, 0>> is 0.0
RECURSIVE OwnerBalanceDecimal(_, _, _, _)
OwnerBalanceDecimal(holders_raw, owner, decimals, acc) ==
  IF holders_raw = <<>> THEN acc
  ELSE LET balance_decimal == IntTrueDiv(Head(holders_raw).amount, Pow10(decimals))
           sum == IF Head(holders_raw).owner # owner \/ Head(holders_raw).amount <= 0 THEN acc
                  ELSE IF acc = <<0, 0>> THEN balance_decimal
                  ELSE FloatAdd(acc, balance_decimal)
       IN  OwnerBalanceDecimal(Tail(holders_raw), owner, decimals, sum)

DetectorTeamPercentage(holders_raw, owner, decimals, total_supply_raw) ==
  LET total_supply_decimal == IntTrueDiv(total_supply_raw, Pow10(decimals))
      balance == OwnerBalanceDecimal(holders_raw, owner, decimals, <<0, 0>>)
  IN  FloatMulInt(FloatDiv(balance, total_supply_decimal), 100)

\* A mutant of AnalyzerTeam: the creator is not excluded.
AnalyzerTeam_WithCreator(holders_raw, decimals, total_supply_raw, classified_wallets) ==
  {owner \in HolderOwners(holders_raw) :
     /\ FloatGeInt(AnalyzerTeamPercentage(OwnerRawBalance(holders_raw, owner),
                                          decimals, total_supply_raw),
                   TEAM_HOLDING_PERCENT_THRESHOLD)
     /\ owner \notin KNOWN_PROGRAM_IDS}

AnalyzerTeam(holders_raw, decimals, total_supply_raw, classified_wallets) ==
  {owner \in HolderOwners(holders_raw) :
     /\ FloatGeInt(AnalyzerTeamPercentage(OwnerRawBalance(holders_raw, owner),
                                          decimals, total_supply_raw),
                   TEAM_HOLDING_PERCENT_THRESHOLD)
     /\ owner \notin classified_wallets
     /\ owner \notin KNOWN_PROGRAM_IDS}

DetectorTeam(holders_raw, decimals, total_supply_raw) ==
  {owner \in HolderOwners(holders_raw) :
     FloatGeInt(DetectorTeamPercentage(holders_raw, owner, decimals, total_supply_raw),
                TEAM_HOLDING_PERCENT_THRESHOLD)}

\* The timing windows; offsets are seconds after listing_time.
\* Mutant of SniperCandidates: the window is closed at the listing time.
SniperCandidates_Closed(transactions, classified_wallets, sniper_window) ==
  {transactions[i].wallet : i \in
     {j \in DOMAIN transactions :
        /\ transactions[j].is_buy
        /\ transactions[j].wallet \notin classified_wallets
        /\ 0 <= transactions[j].offset
        /\ transactions[j].offset <= sniper_window}}

SniperCandidates(transactions, classified_wallets, sniper_window) ==
  {transactions[i].wallet : i \in
     {j \in DOMAIN transactions :
        /\ transactions[j].is_buy
        /\ transactions[j].wallet \notin classified_wallets
        /\ 0 < transactions[j].offset
        /\ transactions[j].offset <= sniper_window}}

InsiderCandidates(transactions, classified_wallets, sniper_window) ==
  {transactions[i].wallet : i \in
     {j \in DOMAIN transactions :
        /\ transactions[j].is_buy
        /\ transactions[j].wallet \notin classified_wallets
        /\ sniper_window < transactions[j].offset
        /\ transactions[j].offset <= INSIDER_WINDOW_MINUTES * 60}}

Snipers(transactions, classified_wallets, sniper_window) ==
  SniperCandidates(transactions, classified_wallets, sniper_window) \ classified_wallets

\* A mutant of Insiders: the snipers are not taken out.
Insiders_WithSnipers(transactions, classified_wallets, sniper_window) ==
  InsiderCandidates(transactions, classified_wallets, sniper_window) \ classified_wallets

Insiders(transactions, classified_wallets, sniper_window) ==
  InsiderCandidates(transactions, classified_wallets, sniper_window)
    \ (classified_wallets \cup Snipers(transactions, classified_wallets, sniper_window))

ClassifiedWallets == cls.creator \cup cls.team \cup cls.sniper \cup cls.insider

\* ---- WalletAnalyzer._calculate_classifications
\* total_supply_decimal > 0: total_supply_decimal is total_supply_raw / 10 ** decimals,
\* and in classify_wallets 0.0 when decimals is negative
SupplyPositive(decimals, total_supply_raw) == decimals >= 0 /\ total_supply_raw > 0

CalculateClassificationsMetadata(metadata) ==
  /\ cls.pc = "idle"
  /\ cls_in' = MetadataInput(metadata)
  /\ IF metadata.decimals < 0 \/ metadata.total_supply < 0
       THEN cls' = [NoClassification EXCEPT !.engine = "analyzer", !.pc = "done",
                                            !.error = TRUE]
       ELSE cls' = [NoClassification EXCEPT
                      !.engine = "analyzer", !.pc = "holders",
                      !.decimals = metadata.decimals,
                      !.total_supply_raw = metadata.total_supply,
                      !.mintAuthority = metadata.mintAuthority,
                      !.creator = {auth \in {metadata.mintAuthority, metadata.freezeAuthority} :
                                     auth # "None" /\ auth \notin KNOWN_PROGRAM_IDS}]
  /\ UNCHANGED nonClassifyVars

\* total_supply_decimal > 0 is false: no holder fetch, no suspension
CalculateClassificationsNoSupply ==
  /\ cls.engine = "analyzer" /\ cls.pc = "holders"
  /\ ~SupplyPositive(cls.decimals, cls.total_supply_raw)
  /\ cls' = [cls EXCEPT !.pc = "transactions"]
  /\ cls_in' = NoInput
  /\ UNCHANGED nonClassifyVars

CalculateClassificationsHolders(fetched, holders_raw) ==
  /\ fetched \/ holders_raw = <<>>
  /\ cls.engine = "analyzer" /\ cls.pc = "holders"
  /\ SupplyPositive(cls.decimals, cls.total_supply_raw)
  /\ cls_in' = RowsInput("holders", fetched, holders_raw)
  /\ cls' = [cls EXCEPT
       !.pc = "transactions",
       !.team = IF ~fetched THEN {}
                ELSE AnalyzerTeam(holders_raw, cls.decimals, cls.total_supply_raw,
                                  cls.creator)]
  /\ UNCHANGED nonClassifyVars

\* fetched is FALSE when the listing time is unknown or the fetch failed
CalculateClassificationsTransactions(fetched, transactions) ==
  /\ fetched \/ transactions = <<>>
  /\ cls.engine = "analyzer" /\ cls.pc = "transactions"
  /\ cls_in' = RowsInput("transactions", fetched, transactions)
  /\ cls' = IF ~fetched THEN [cls EXCEPT !.pc = "done"]
            ELSE [cls EXCEPT
                    !.pc = "done",
                    !.sniper = Snipers(transactions, cls.creator \cup cls.team,
                                       WalletAnalyzer_SNIPER_WINDOW_SECONDS),
                    !.insider = Insiders(transactions, cls.creator \cup cls.team,
                                         WalletAnalyzer_SNIPER_WINDOW_SECONDS)]
  /\ UNCHANGED nonClassifyVars

\* ---- TransactionDetector.classify_wallets
ClassifyWalletsMetadata(metadata) ==
  /\ cls.pc = "idle"
  /\ cls_in' = MetadataInput(metadata)
  /\ IF metadata.decimals = -1 \/ metadata.total_supply = -1
       THEN cls' = [NoClassification EXCEPT !.engine = "detector", !.pc = "done",
                                            !.error = TRUE]
       ELSE cls' = [NoClassification EXCEPT
                      !.engine = "detector", !.pc = "holders",
                      !.decimals = metadata.decimals,
                      !.total_supply_raw = metadata.total_supply]
  /\ UNCHANGED nonClassifyVars

ClassifyWalletsNoSupply ==
  /\ cls.engine = "detector" /\ cls.pc = "holders"
  /\ ~SupplyPositive(cls.decimals, cls.total_supply_raw)
  /\ cls' = [cls EXCEPT !.pc = "transactions"]
  /\ cls_in' = NoInput
  /\ UNCHANGED nonClassifyVars

ClassifyWalletsHolders(fetched, holders_raw) ==
  /\ fetched \/ holders_raw = <<>>
  /\ cls.engine = "detector" /\ cls.pc = "holders"
  /\ SupplyPositive(cls.decimals, cls.total_supply_raw)
  /\ cls_in' = RowsInput("holders", fetched, holders_raw)
  /\ cls' = [cls EXCEPT
       !.pc = "transactions",
       !.team = IF ~fetched THEN {}
                ELSE DetectorTeam(holders_raw, cls.decimals, cls.total_supply_raw)]
  /\ UNCHANGED nonClassifyVars

ClassifyWalletsTransactions(fetched, transactions) ==
  /\ fetched \/ transactions = <<>>
  /\ cls.engine = "detector" /\ cls.pc = "transactions"
  /\ cls_in' = RowsInput("transactions", fetched, transactions)
  /\ cls' = IF ~fetched THEN [cls EXCEPT !.pc = "done"]
            ELSE [cls EXCEPT
                    !.pc = "done",
                    !.sniper = Snipers(transactions, cls.team, SNIPER_WINDOW_SECONDS),
                    !.insider = Insiders(transactions, cls.team, SNIPER_WINDOW_SECONDS)]
  /\ UNCHANGED nonClassifyVars

\* A run with holder snapshots of up to max_holders accounts and up to
\* max_transactions transactions around the listing.
ClassifyStep(max_holders, max_transactions) ==
  \/ \E metadata \in MetadataValues : CalculateClassificationsMetadata(metadata)
  \/ CalculateClassificationsNoSupply
  \/ /\ cls.pc = "holders"
     /\ \E fetched \in BOOLEAN, holders_raw \in HolderValues(max_holders) :
          CalculateClassificationsHolders(fetched, holders_raw)
  \/ /\ cls.pc = "transactions"
     /\ \E fetched \in BOOLEAN, transactions \in TransactionValues(max_transactions) :
          CalculateClassificationsTransactions(fetched, transactions)
  \/ \E metadata \in MetadataValues : ClassifyWalletsMetadata(metadata)
  \/ ClassifyWalletsNoSupply
  \/ /\ cls.pc = "holders"
     /\ \E fetched \in BOOLEAN, holders_raw \in HolderValues(max_holders) :
          ClassifyWalletsHolders(fetched, holders_raw)
  \/ /\ cls.pc = "transactions"
     /\ \E fetched \in BOOLEAN, transactions \in TransactionValues(max_transactions) :
          ClassifyWalletsTransactions(fetched, transactions)

\* the holder snapshots in full, at most one transaction
TeamNext == ClassifyStep(MaxHolderAccounts, 1)
TeamSpec == Init /\ [][TeamNext]_vars

\* the transactions in full, at most one holder account
WindowNext == ClassifyStep(1, MaxTransactions)
WindowSpec == Init /\ [][WindowNext]_vars

\* ======================================================== wallet token states
\* WalletAnalyzer.store_initial_wallet_state (src/wallet_analyzer.py): one
\* task per newly classified wallet, created by _calculate_classifications.
\* The table classified_wallet_token_states is a list of rows; a row has an
\* id of its own, and the source declares nothing unique about
\* (mint_address, wallet_address).
StatePairs == {<<"m1", "w1">>, <<"m1", "w2">>, <<"m2", "w1">>}
ClsTypes == {"team", "sniper"}
\* raw balances a fetch returns (a failed fetch returns None)
BalanceValues == {0, 10}
\* raw balances observed later
ObservedValues == {0, 1, 5, 6, 12}

RowsOf(mint, wallet) ==
  {i \in DOMAIN wallet_states :
     wallet_states[i].mint_address = mint /\ wallet_states[i].wallet_address = wallet}

\* asyncio.create_task(self.store_initial_wallet_state(mint, wallet, cls_type))
LaunchStoreTask(t, mint, wallet, cls_type) ==
  /\ store[t].pc = "idle"
  /\ store' = [store EXCEPT ![t] = [NoStoreTask EXCEPT
                  !.pc = "check", !.mint_address = mint, !.wallet_address = wallet,
                  !.classification = cls_type]]
  /\ UNCHANGED <<wallet_states, observed, nonStateVars>>

\* _check_state_exists: count > 0
CheckStateExists(mint, wallet) == RowsOf(mint, wallet) # {}

\* the answer of _check_state_exists arrives
StoreCheck(t) ==
  /\ store[t].pc = "check"
  /\ store' = [store EXCEPT ![t].pc =
       IF CheckStateExists(store[t].mint_address, store[t].wallet_address)
         THEN "done" ELSE "fetch"]
  /\ UNCHANGED <<wallet_states, observed, nonStateVars>>

\* the balance arrives; fetched is FALSE for None
StoreFetched(t, fetched, initial_raw_balance) ==
  /\ store[t].pc = "fetch"
  /\ fetched \/ initial_raw_balance = 0
  /\ store' = [store EXCEPT
       ![t].pc = IF ~fetched \/ initial_raw_balance <= 0 THEN "done" ELSE "insert",
       ![t].initial_raw_balance = initial_raw_balance]
  /\ UNCHANGED <<wallet_states, observed, nonStateVars>>

\* the database runs the insert
StoreInsert(t) ==
  /\ store[t].pc = "insert"
  /\ wallet_states' = Append(wallet_states,
       [mint_address |-> store[t].mint_address,
        wallet_address |-> store[t].wallet_address,
        classification |-> store[t].classification,
        initial_raw_balance |-> store[t].initial_raw_balance,
        current_status |-> "GREEN"])
  /\ store' = [store EXCEPT ![t].pc = "done"]
  /\ UNCHANGED <<observed, nonStateVars>>

\* ---- apply_balance_change (the State Tracker)
Severity(status) == CASE status = "GREEN" -> 0 [] status = "YELLOW" -> 1 [] status = "RED" -> 2

\* the status the retained fraction new_raw_balance / initial_raw_balance
\* asks for: RED at or below 0.1 or at zero, YELLOW at or below 0.5
ComputedStatus(new_raw_balance, initial_raw_balance) ==
  IF new_raw_balance <= 0 \/ 10 * new_raw_balance <= initial_raw_balance THEN "RED"
  ELSE IF 2 * new_raw_balance <= initial_raw_balance THEN "YELLOW"
  ELSE "GREEN"

\* A mutant of NextStatus: the computed status is taken as it is.
NextStatus_Recomputed(current_status, new_raw_balance, initial_raw_balance) ==
  ComputedStatus(new_raw_balance, initial_raw_balance)

\* A mutant of NextStatus: the thresholds are exclusive.
NextStatus_Exclusive(current_status, new_raw_balance, initial_raw_balance) ==
  LET computed == IF new_raw_balance <= 0 \/ 10 * new_raw_balance < initial_raw_balance
                    THEN "RED"
                  ELSE IF 2 * new_raw_balance < initial_raw_balance THEN "YELLOW"
                  ELSE "GREEN"
  IN  IF Severity(computed) > Severity(current_status) THEN computed ELSE current_status

\* a no-op unless the computed status is more severe than the current one
NextStatus(current_status, new_raw_balance, initial_raw_balance) ==
  LET computed == ComputedStatus(new_raw_balance, initial_raw_balance)
  IN  IF Severity(computed) > Severity(current_status) THEN computed ELSE current_status

ApplyBalanceChange(mint, wallet, new_raw_balance) ==
  /\ RowsOf(mint, wallet) # {}
  /\ wallet_states' = [i \in DOMAIN wallet_states |->
       IF i \in RowsOf(mint, wallet)
         THEN [wallet_states[i] EXCEPT !.current_status =
                 NextStatus(wallet_states[i].current_status, new_raw_balance,
                            wallet_states[i].initial_raw_balance)]
         ELSE wallet_states[i]]
  /\ observed' = [mint_address |-> mint, wallet_address |-> wallet,
                  new_raw_balance |-> new_raw_balance]
  /\ UNCHANGED <<store, nonStateVars>>

StateNext ==
  \/ \E t \in StoreTasks, pair \in StatePairs, cls_type \in ClsTypes :
       LaunchStoreTask(t, pair[1], pair[2], cls_type)
  \/ \E t \in StoreTasks : StoreCheck(t)
  \/ \E t \in StoreTasks, fetched \in BOOLEAN, initial_raw_balance \in BalanceValues :
       StoreFetched(t, fetched, initial_raw_balance)
  \/ \E t \in StoreTasks : StoreInsert(t)
  \/ \E pair \in StatePairs, new_raw_balance \in ObservedValues :
       ApplyBalanceChange(pair[1], pair[2], new_raw_balance)

StateSpec == Init /\ [][StateNext]_vars

\* ========================================================= transaction parser
\* TransactionParser._calculate_balance_changes (src/transaction_parser.py),
\* a function of the transaction's meta.  A balance entry is
\* [accountIndex, mint, owner, amount]; accountIndex -1 and owner "None"
\* stand for a field that is absent.
MaxBalances == 2
AccountIndexValues == {-1, 0}
BalanceOwners == {"None", "w1"}
RawAmounts == {0, 5}
BalanceEntries ==
  [accountIndex : AccountIndexValues, mint : Mints, owner : BalanceOwners, amount : RawAmounts]
MetaValues ==
  [preTokenBalances : SeqsUpTo(BalanceEntries, MaxBalances),
   postTokenBalances : SeqsUpTo(BalanceEntries, MaxBalances)]

\* balances_by_idx_mint has an entry for (idx, mint): some balance of the
\* pre or post list has that index and mint, and an owner
InBalancesByIdxMint(idx, mint, m) ==
  \E bal_list \in {m.preTokenBalances, m.postTokenBalances} :
    \E i \in DOMAIN bal_list :
      /\ bal_list[i].accountIndex = idx /\ bal_list[i].mint = mint
      /\ bal_list[i].accountIndex # -1 /\ bal_list[i].owner # "None"

\* the body of `for bal in post_balances` gets past its two `continue`s
DeltaLoopEntered(m) ==
  \E i \in DOMAIN m.postTokenBalances :
    /\ m.postTokenBalances[i].accountIndex # -1
    /\ InBalancesByIdxMint(m.postTokenBalances[i].accountIndex,
                           m.postTokenBalances[i].mint, m)

\* pre_map / post_map: {(owner, mint): amount}, a later entry of the list
\* replacing an earlier one; the keys and the values
BalanceMapKeys(bal_list) ==
  {<<bal_list[i].owner, bal_list[i].mint>> : i \in {j \in DOMAIN bal_list : bal_list[j].owner # "None"}}
BalanceMapGet(bal_list, key) ==
  LET at == {i \in DOMAIN bal_list : <<bal_list[i].owner, bal_list[i].mint>> = key}
  IN  IF at = {} THEN 0 ELSE bal_list[CHOOSE i \in at : \A j \in at : j <= i].amount

\* the deltas of the pre and post maps that are not zero
BalanceDiff(m) ==
  {[wallet |-> key[1], mint |-> key[2],
    raw_change |-> BalanceMapGet(m.postTokenBalances, key)
                   - BalanceMapGet(m.preTokenBalances, key)] :
     key \in {k \in BalanceMapKeys(m.preTokenBalances) \cup BalanceMapKeys(m.postTokenBalances) :
                BalanceMapGet(m.postTokenBalances, k) # BalanceMapGet(m.preTokenBalances, k)}}

\* token_changes: the diff is computed inside the loop over post_balances
TokenChanges(m) == IF DeltaLoopEntered(m) THEN BalanceDiff(m) ELSE {}

CalculateBalanceChanges ==
  /\ ~parsed.done
  /\ parsed' = [done |-> TRUE, token_changes |-> TokenChanges(meta)]
  /\ UNCHANGED <<meta, nonParserVars>>

ExtractInit ==
  /\ ServiceInit
  /\ maxsize = QueueMaxSize
  /\ meta \in MetaValues
  /\ details = <<>>

ExtractNext == CalculateBalanceChanges

ExtractSpec == ExtractInit /\ [][ExtractNext]_vars

\* ================================================= parse_transaction_for_event
\* TransactionParser.parse_transaction_for_event (src/transaction_parser.py)
\* and its caller MonitoringService.fetch_and_parse_recent_transactions
\* (src/monitoring_service.py).  A transaction detail is
\* [kind, err, signature, blockTime, meta]: kind "None" is a fetch that
\* returned None or an exception, kind "empty" is {}, signature "None" and
\* blockTime -1 stand for a field that is absent.
MaxDetails == 2
SignatureValues == {"None", "s1"}
BlockTimeValues == {-1, 0}
TokenEntry == [accountIndex |-> 0, mint |-> "m1", owner |-> "w1", amount |-> 5]
DetailMetas ==
  {NoTokenBalances,
   [preTokenBalances |-> <<>>, postTokenBalances |-> <<TokenEntry>>],
   [preTokenBalances |-> <<TokenEntry>>, postTokenBalances |-> <<>>]}
NoDetail(kind) ==
  [kind |-> kind, err |-> FALSE, signature |-> "None", blockTime |-> -1,
   meta |-> NoTokenBalances]
DetailValues ==
  {NoDetail("None"), NoDetail("empty")}
    \cup [kind : {"dict"}, err : BOOLEAN, signature : SignatureValues,
          blockTime : BlockTimeValues, meta : DetailMetas]

\* Mutant of TransactionFailed: meta.err is not looked at.
TransactionFailed_Ignored(tx_data) == FALSE

\* tx_data.get("meta", {}).get("err")
TransactionFailed(tx_data) == tx_data.err

\* the except clause's return value
ErrorResult(signature) ==
  [kind |-> "error", signature |-> signature, timestamp |-> -1, token_changes |-> {}]
\* an exception raised inside the try block, signature as it is at the raise
Raised(signature) ==
  [kind |-> "raise", signature |-> signature, timestamp |-> -1, token_changes |-> {}]

\* the try block of parse_transaction_for_event
ParseTransactionForEventBody(tx_data) ==
  IF tx_data.kind # "dict" THEN Raised("(unknown)")
  ELSE IF TransactionFailed(tx_data) THEN NoEvent
  ELSE IF tx_data.signature = "None" \/ tx_data.blockTime = -1
    THEN Raised(tx_data.signature)
  ELSE IF TokenChanges(tx_data.meta) = {} THEN NoEvent
  ELSE [kind |-> "event", signature |-> tx_data.signature,
        timestamp |-> tx_data.blockTime, token_changes |-> TokenChanges(tx_data.meta)]

\* Mutant of ParseTransactionForEvent: no except clause.
ParseTransactionForEvent_Uncaught(tx_data) == ParseTransactionForEventBody(tx_data)

\* parse_transaction_for_event: `except Exception` returns the error dict
ParseTransactionForEvent(tx_data) ==
  LET returned == ParseTransactionForEventBody(tx_data)
  IN  IF returned.kind = "raise" THEN ErrorResult(returned.signature) ELSE returned

\* a call of parse_transaction_for_event on a transaction of the batch
ParseTransactionForEventCall(i) ==
  /\ event' = [called |-> TRUE, i |-> i, result |-> ParseTransactionForEvent(details[i])]
  /\ event' # event
  /\ UNCHANGED <<details, fetch, nonParseVars>>

\* fetch_and_parse_recent_transactions up to the end of the gather: no
\* signatures returns at once
FetchTransactionDetails ==
  /\ fetch.pc = "idle"
  /\ fetch' = [fetch EXCEPT !.pc = IF details = <<>> THEN "done" ELSE "parse", !.i = 1]
  /\ UNCHANGED <<details, event, nonParseVars>>

\* one iteration of `for i, detail_result in enumerate(...)`, and the return
\* after the last one; an exception out of the parser is caught by the
\* function's `except Exception`, which returns no events
ParseDetail ==
  /\ fetch.pc = "parse"
  /\ LET detail_result == details[fetch.i]
         skipped == detail_result.kind = "None" \/ TransactionFailed(detail_result)
         result == ParseTransactionForEvent(detail_result)
         after == IF fetch.i = Len(details) THEN "done" ELSE "parse"
     IN  /\ event' = IF skipped THEN event
                     ELSE [called |-> TRUE, i |-> fetch.i, result |-> result]
         /\ fetch' =
              IF skipped \/ result.kind \in {"None", "error"}
                THEN [fetch EXCEPT !.pc = after, !.i = @ + 1]
              ELSE IF result.kind = "raise"
                THEN [fetch EXCEPT !.pc = "raised", !.parsed_events = <<>>,
                                   !.parsed_from = <<>>]
              ELSE [fetch EXCEPT !.pc = after, !.i = @ + 1,
                                 !.parsed_events = Append(@, result),
                                 !.parsed_from = Append(@, fetch.i)]
  /\ UNCHANGED <<details, nonParseVars>>

ParseInit ==
  /\ ServiceInit
  /\ maxsize = QueueMaxSize
  /\ meta = NoTokenBalances
  /\ details \in SeqsUpTo(DetailValues, MaxDetails)

ParseNext ==
  \/ \E i \in DOMAIN details : ParseTransactionForEventCall(i)
  \/ FetchTransactionDetails
  \/ ParseDetail

ParseSpec == ParseInit /\ [][ParseNext]_vars

\* ==================================================== last-processed marker
\* MonitoringService.monitor_token_sells and fetch_and_parse_recent_transactions
\* (src/monitoring_service.py) for one mint.  The transactions of the mint
\* are numbered 1..chain, oldest first, and a signature is the number of its
\* transaction; 0 stands for None.
MaxChain == 3
SignaturesLimit == 50

Min(a, b) == IF a < b THEN a ELSE b
Range(f) == {f[i] : i \in DOMAIN f}

\* get_signatures_for_address(limit=50, until=last_processed_sig): the
\* signatures after `until`, newest first, the newest `limit` of them
SignaturesInfo(until) ==
  [i \in 1..Min(SignaturesLimit, chain - Min(until, chain)) |-> chain + 1 - i]

\* a transaction of the mint lands on chain
TransactionLands ==
  /\ chain < MaxChain
  /\ chain' = chain + 1
  /\ UNCHANGED <<last_sig, sweep, processed_sigs, nonSweepVars>>

\* monitor_token_sells up to `last_processed_sig = await self._redis_get(...)`;
\* _redis_get returns None when redis raises
MonitorTokenSells(redis_ok) ==
  /\ sweep.pc = "idle"
  /\ sweep' = [IdleSweep EXCEPT !.pc = "signatures",
                                !.last_processed_sig = IF redis_ok THEN last_sig ELSE 0]
  /\ UNCHANGED <<last_sig, chain, processed_sigs, nonSweepVars>>

\* 1. Fetch Signatures: None (API error), an exception, or no new signature
\* return ([], last_processed_sig), and monitor_token_sells returns 0 as
\* newest_sig is last_processed_sig
GetSignaturesForAddress(outcome) ==
  /\ sweep.pc = "signatures"
  /\ LET signatures_info == SignaturesInfo(sweep.last_processed_sig)
     IN  sweep' =
           IF outcome # "ok" \/ signatures_info = <<>> THEN IdleSweep
           ELSE [sweep EXCEPT !.pc = "details", !.signatures_info = signatures_info,
                              !.newest_sig_in_batch = signatures_info[1]]
  /\ UNCHANGED <<last_sig, chain, processed_sigs, nonSweepVars>>

\* return parsed_events, newest_sig_in_batch or last_processed_sig
FetchReturn(newest_sig_in_batch, last_processed_sig) ==
  IF newest_sig_in_batch # 0 THEN newest_sig_in_batch ELSE last_processed_sig

\* 2. and 3.: the gather of get_transaction_details (return_exceptions=True)
\* and the parse loop; the details of the signatures in `failed` came back
\* as None or as an exception and are skipped with `continue`
GetTransactionDetails(failed) ==
  /\ sweep.pc = "details"
  /\ failed \subseteq Range(sweep.signatures_info)
  /\ LET parsed_from == SelectSeq(sweep.signatures_info, LAMBDA s : s \notin failed)
     IN  /\ sweep' = [sweep EXCEPT
                        !.pc = "marker",
                        !.parsed_events = parsed_from,
                        !.newest_sig = FetchReturn(sweep.newest_sig_in_batch,
                                                   sweep.last_processed_sig)]
         /\ processed_sigs' = processed_sigs \cup Range(parsed_from)
  /\ UNCHANGED <<last_sig, chain, nonSweepVars>>

\* the rest of monitor_token_sells: with no parsed event lines 233-239, else
\* the event loop (MonEvent .. MonMark above) and step 10; both end in
\* `if newest_sig and newest_sig != last_processed_sig: await self._redis_set(...)`,
\* and _redis_set swallows a redis error
UpdateMarker(redis_ok) ==
  /\ sweep.pc = "marker"
  /\ last_sig' = IF sweep.newest_sig # 0 /\ sweep.newest_sig # sweep.last_processed_sig
                    /\ redis_ok
                   THEN sweep.newest_sig ELSE last_sig
  /\ sweep' = IdleSweep
  /\ UNCHANGED <<chain, processed_sigs, nonSweepVars>>

SweepNext ==
  \/ TransactionLands
  \/ \E redis_ok \in BOOLEAN : MonitorTokenSells(redis_ok)
  \/ \E outcome \in {"ok", "None", "raise"} : GetSignaturesForAddress(outcome)
  \/ \E failed \in SUBSET (1..MaxChain) : GetTransactionDetails(failed)
  \/ \E redis_ok \in BOOLEAN : UpdateMarker(redis_ok)

SweepSpec == Init /\ [][SweepNext]_vars

\* ================================================================== claims

\* C1: for every interleaving of the tasks spawned for stream notifications
\* with the same signature, each recipient is handed at most one alert for
\* that signature.
C1_AtMostOncePerSignature ==
  \A s \in Sigs, c \in Chats : attempts[Alert(s, c, "activity_alert")] <= 1

\* C2: of the alerts with the same signature and role submitted to the
\* dispatcher for one recipient, only the first enters the queue (the later
\* ones are suppressed before they are enqueued).
C2_DispatcherDedup ==
  \A s \in Sigs, c \in Chats :
    enqueued[Alert(s, c, "activity_alert")] + enqueued[Alert(s, c, "sell_alert")] <= 1

\* C3: a dedup marker is recorded only after the delivery of the alert of its
\* signature has been attempted for every recipient.
C3_MarkerOnlyAfterAttempt ==
  /\ \A s \in rt_marker : \A c \in Chats : attempts[Alert(s, c, "activity_alert")] >= 1
  /\ \A s \in sell_marker : \A c \in Chats : attempts[Alert(s, c, "sell_alert")] >= 1

\* A step of the system seen from a stream task suspended in Queue.put:
\* the task stays suspended, or its alert is appended to a queue with room.
RtPutStep(t) ==
  rt[t].pc = "put" =>
    \/ rt'[t] = rt[t]
    \/ /\ Len(notification_queue) < QueueMaxSize
       /\ Len(notification_queue') > Len(notification_queue)
       /\ notification_queue'[Len(notification_queue) + 1] = rt[t].todo[1]

\* The same, seen from the sell sweep.
MonPutStep ==
  mon.pc = "put" =>
    \/ mon' = mon
    \/ /\ Len(notification_queue) < QueueMaxSize
       /\ Len(notification_queue') > Len(notification_queue)
       /\ notification_queue'[Len(notification_queue) + 1] = mon.todo[1]

\* C4: the queue never holds more than its capacity; a producer is suspended
\* in put only while the queue is full at its call, its put completes only in
\* a step that starts with room in the queue, and that step appends the very
\* alert it was suspended with (nothing is dropped).
C4_Backpressure ==
  /\ [](Len(notification_queue) <= QueueMaxSize)
  /\ [][(\A t \in RtTasks : RtPutStep(t)) /\ MonPutStep]_vars

\* C4 witness: a producer that was suspended on a full queue has been enqueued.
C4_Witness == resumed_puts >= 1

\* C5: stop() is never left waiting on put(None) with nobody to free a slot.
C5_StopNeverStuck == ~(stop_pc = "put" /\ processor_task = "done")

ConnectionStep == websocket' # websocket \/ connect_pc' # connect_pc

\* The step in which connect() opens a connection after an earlier one.
ReconnectOpens == connect_pc = "connecting" /\ websocket' = "open" /\ conn >= 1

\* What the open socket carries unanswered when a reconciliation step starts.
Carried == IF connect_pc = "connecting" THEN <<>> ELSE wire

\* A run of _update_helius_subscription on an open connection: by a spawned
\* task, or inside connect().
ReconciliationStep ==
  \/ \E u \in UpdTasks : upd[u].pc = "ready" /\ upd'[u].pc # "ready" /\ websocket = "open"
  \/ connect_pc = "connecting" /\ websocket' = "open"

\* The step wrote exactly one request r to the socket.
SentOne(r) == wire' = Append(Carried, r)

\* The account lists the cap allows for the intended set.
CappedIntended ==
  {T \in SUBSET intended :
     Cardinality(T) = IF Cardinality(intended) <= MAX_ACCOUNTS_PER_SUBSCRIPTION
                      THEN Cardinality(intended) ELSE MAX_ACCOUNTS_PER_SUBSCRIPTION}

\* C7: closing the socket and reconnecting leave the intended set as it is,
\* and when connect() opens a new connection with a non-empty intended set it
\* sends one subscribe request whose account list is exactly the intended set.
C7_ReconnectSendsIntended ==
  [][/\ ConnectionStep => intended' = intended
     /\ (ReconnectOpens /\ intended # {}) =>
          \E ts \in 1 .. MaxClock : wire' = <<SubscribeRequest(ts, intended)>>]_vars

\* C7 as amended: the account list is the intended set when that fits the cap
\* on accounts per subscription, and a part of it of exactly the cap's size
\* otherwise.
C7_ReconnectSendsCappedIntended ==
  [][/\ ConnectionStep => intended' = intended
     /\ (ReconnectOpens /\ intended # {}) =>
          \E ts \in 1 .. MaxClock, list \in CappedIntended :
             wire' = <<SubscribeRequest(ts, list)>>]_vars

C7_Witness ==
  /\ conn >= 2
  /\ websocket = "open"
  /\ upd[ConnectCaller].pc = "send_sub"
  /\ Len(wire) = 1
  /\ wire[1].accounts \subseteq intended

SubscriptionStateCleared ==
  helius_id = NoId /\ local_request_id = NoId /\ active_filter = {}

\* A step of one of the three operations that write the intended set.
IntendedWriter ==
  \/ \E account_address \in Mints : AddAccountToMonitor(account_address)
  \/ \E account_address \in Mints : RemoveAccountToMonitor(account_address)
  \/ \E mints_to_track \in SUBSET Mints : LoadInitialIntendedSubscriptions(mints_to_track)

\* C8: while connect() waits for the new socket the confirmed subscription id
\* and the last correlation id are none and the confirmed filter set is empty;
\* no step of connect() and no close of the socket changes the intended set;
\* and every step that changes the intended set is a step of add, remove or
\* the initial load.
C8_ClearedAndIntendedKept ==
  /\ [](connect_pc = "connecting" => SubscriptionStateCleared)
  /\ [][/\ ConnectionStep => intended' = intended
        /\ intended' # intended => IntendedWriter]_vars

C8_Witness ==
  /\ connect_pc = "connecting"
  /\ conn >= 1
  /\ intended # {}
  /\ wire # <<>>

\* C9: a reconciliation step on an open connection sends exactly one subscribe
\* request carrying the whole intended set when that set is non-empty and
\* differs from the confirmed filter set, and sets the confirmed filter set to
\* the list sent; it sends nothing when the two sets are equal.
C9_SendsFullListOnce ==
  [][ReconciliationStep =>
       /\ (intended # {} /\ intended # active_filter) =>
            /\ \E ts \in 1 .. MaxClock : SentOne(SubscribeRequest(ts, intended))
            /\ active_filter' = intended
       /\ intended = active_filter => wire' = Carried]_vars

\* C9 as amended: the request carries the intended set when that fits the cap
\* on accounts per subscription and a part of it of the cap's size otherwise;
\* the confirmed filter set is set to the list sent.
C9_SendsCappedListOnce ==
  [][ReconciliationStep =>
       /\ (intended # {} /\ intended # active_filter) =>
            \E ts \in 1 .. MaxClock, list \in CappedIntended :
              /\ SentOne(SubscribeRequest(ts, list))
              /\ active_filter' = list
       /\ intended = active_filter => wire' = Carried]_vars

C9_Witness ==
  \E u \in UpdTasks :
    /\ upd[u].pc = "send_sub"
    /\ upd[u].prev # {}
    /\ active_filter # {}
    /\ active_filter # upd[u].prev
    /\ wire[Len(wire)].accounts = active_filter

\* C10: a reconciliation step that finds the intended set empty while a
\* subscription has been requested or confirmed on the connection sends an
\* unsubscribe request.
C10_UnsubscribesWhenEmptied ==
  [][(/\ ReconciliationStep
      /\ intended = {}
      /\ active_filter # {}
      /\ (local_request_id # NoId \/ helius_id # NoId)) =>
       \E hid \in HeliusIds, ts \in 1 .. MaxClock :
          SentOne(UnsubscribeRequest(hid, ts))]_vars

\* C10, second half: no subscribe request carries an empty account list.
C10_NoEmptySubscribe ==
  \A i \in 1 .. Len(wire) :
    wire[i].method = "transactionSubscribe" => wire[i].accounts # {}

\* C11: a notification is handed to the analyzer only when its subscription
\* id equals the confirmed subscription id of that moment; a notification
\* with any other id changes nothing, and nothing is handed over while no
\* subscription is confirmed, as on a new connection before its first
\* acknowledgment.
C11_DispatchOnlyConfirmed ==
  [][/\ dispatched' # dispatched => (dispatched' = helius_id /\ helius_id # NoId)
     /\ \A h \in HeliusIds :
          (HandleNotification(h) /\ h # helius_id) => UNCHANGED vars]_vars

C11_Witness ==
  /\ conn >= 2
  /\ helius_id # NoId
  /\ dispatched # NoId
  /\ dispatched # helius_id
  /\ websocket = "open"

\* ------------------------------------------------------ wallet classification
\* The sniper window of the run's engine, in seconds.
SniperWindow ==
  IF cls.engine = "analyzer" THEN WalletAnalyzer_SNIPER_WINDOW_SECONDS
  ELSE SNIPER_WINDOW_SECONDS

\* wallet bought in the window (lo, hi] of the transactions just processed
BoughtIn(wallet, lo, hi) ==
  \E i \in DOMAIN cls_in.rows :
    /\ cls_in.rows[i].wallet = wallet
    /\ cls_in.rows[i].is_buy
    /\ lo < cls_in.rows[i].offset
    /\ cls_in.rows[i].offset <= hi

TransactionsProcessed ==
  cls.pc = "done" /\ cls_in.stage = "transactions" /\ cls_in.fetched

\* C12: the four sets creator, team, sniper and insider of a classification
\* are pairwise disjoint, and a wallet that qualifies for several roles is in
\* the one of highest priority only (creator > team > sniper > insider): a
\* creator or team wallet that buys after the listing is neither sniper nor
\* insider, a wallet that buys in the sniper window is sniper and not insider
\* even when it also buys in the insider window, and a wallet that buys in
\* the insider window only is insider.
C12_DisjointByPriority ==
  /\ cls.creator \cap cls.team = {}
  /\ (cls.creator \cup cls.team) \cap (cls.sniper \cup cls.insider) = {}
  /\ cls.sniper \cap cls.insider = {}
  /\ TransactionsProcessed =>
       \A wallet \in Wallets \ (cls.creator \cup cls.team) :
         /\ wallet \in cls.sniper <=> BoughtIn(wallet, 0, SniperWindow)
         /\ wallet \in cls.insider <=>
              /\ BoughtIn(wallet, SniperWindow, INSIDER_WINDOW_MINUTES * 60)
              /\ ~BoughtIn(wallet, 0, SniperWindow)

\* a wallet bought in both windows and is sniper only, next to a creator and
\* a team wallet
C12_Witness ==
  /\ TransactionsProcessed
  /\ cls.engine = "analyzer"
  /\ cls.creator # {}
  /\ \E wallet \in cls.sniper :
       /\ BoughtIn(wallet, 0, SniperWindow)
       /\ BoughtIn(wallet, SniperWindow, INSIDER_WINDOW_MINUTES * 60)
       /\ wallet \notin cls.insider

HoldersProcessed ==
  cls.pc = "transactions" /\ cls_in.stage = "holders" /\ cls_in.fetched

\* C13: once the metadata of a run of the analyzer is accepted, a wallet that
\* is the token's mint authority is in creator and not in team, at every
\* later point of the run and for every holder snapshot, also when the
\* wallet's aggregated holding is at or above the team threshold.
C13_MintAuthorityIsCreatorNeverTeam ==
  (cls.engine = "analyzer" /\ cls.pc # "idle" /\ cls.mintAuthority \in Wallets) =>
     /\ cls.mintAuthority \in cls.creator
     /\ cls.mintAuthority \notin cls.team

\* the mint authority holds 60 of a supply of 100 in the snapshot
C13_Witness ==
  /\ HoldersProcessed
  /\ cls.engine = "analyzer"
  /\ cls.mintAuthority \in Wallets
  /\ cls.total_supply_raw = 100
  /\ OwnerRawBalance(cls_in.rows, cls.mintAuthority) = 60
  /\ cls.mintAuthority \in cls.creator

\* C14: the team threshold is inclusive and exact on the raw amounts: after
\* the analyzer has processed a holder snapshot, an owner of the snapshot
\* that is neither a creator nor a known program is in team if and only if
\* raw_balance * 100 >= 5 * raw_total_supply, raw_balance being the sum of
\* the owner's accounts (so exactly 5.00% is team and 4.99% is not).
C14_TeamIffFivePercentOfRawSupply ==
  (HoldersProcessed /\ cls.engine = "analyzer") =>
     \A owner \in HolderOwners(cls_in.rows) \ (cls.creator \cup KNOWN_PROGRAM_IDS) :
        owner \in cls.team <=>
          OwnerRawBalance(cls_in.rows, owner) * 100
            >= TEAM_HOLDING_PERCENT_THRESHOLD * cls.total_supply_raw

\* every buy of wallet in the transactions just processed is at this offset,
\* and there is one
BuysOnlyAt(wallet, offset) ==
  /\ \E i \in DOMAIN cls_in.rows :
       cls_in.rows[i].wallet = wallet /\ cls_in.rows[i].is_buy
  /\ \A i \in DOMAIN cls_in.rows :
       (cls_in.rows[i].wallet = wallet /\ cls_in.rows[i].is_buy)
         => cls_in.rows[i].offset = offset

\* C15: with the default windows and listing time T, a wallet that is
\* neither creator nor team and buys at T+14s only is classified sniper, one
\* that buys at T+16s only is classified insider, and one that buys at
\* T+11min only is neither sniper nor insider.
C15_DefaultWindows ==
  TransactionsProcessed =>
    \A wallet \in Wallets \ (cls.creator \cup cls.team) :
      /\ BuysOnlyAt(wallet, 14) => wallet \in cls.sniper
      /\ BuysOnlyAt(wallet, 16) => wallet \in cls.insider
      /\ BuysOnlyAt(wallet, 660) => wallet \notin cls.sniper \cup cls.insider

\* -------------------------------------------------------- wallet token states
\* C16: in every reachable state the table holds at most one row per
\* (mint, wallet) pair, also when two store_initial_wallet_state tasks for
\* the same pair both run the existence check before either inserts.
C16_AtMostOneRecordPerPair ==
  \A pair \in StatePairs : Cardinality(RowsOf(pair[1], pair[2])) <= 1

\* task t creates a row in this step
Creates(t) == store[t].pc = "insert" /\ store'[t].pc = "done"

\* C17: a store_initial_wallet_state call creates a row if and only if no
\* row exists for its pair, the balance fetch succeeds and the fetched raw
\* balance is > 0; the row it creates is GREEN and carries the fetched
\* balance; a call whose fetch fails or returns a balance <= 0, or whose pair
\* has a row, creates no row and changes none.
C17_CreatesIffAbsentAndPositive ==
  [][\A t \in StoreTasks :
       LET mint == store[t].mint_address
           wallet == store[t].wallet_address
       IN
       /\ Creates(t) =>
            /\ RowsOf(mint, wallet) = {}
            /\ store[t].initial_raw_balance > 0
            /\ wallet_states' = Append(wallet_states,
                 [mint_address |-> mint, wallet_address |-> wallet,
                  classification |-> store[t].classification,
                  initial_raw_balance |-> store[t].initial_raw_balance,
                  current_status |-> "GREEN"])
       /\ (store[t].pc = "check" /\ store'[t].pc # "check") =>
            /\ wallet_states' = wallet_states
            /\ store'[t].pc = IF RowsOf(mint, wallet) # {} THEN "done" ELSE "fetch"
       /\ (store[t].pc = "fetch" /\ store'[t].pc # "fetch") =>
            /\ wallet_states' = wallet_states
            /\ store'[t].pc = "insert" <=> store'[t].initial_raw_balance > 0]_vars

\* C18: the status of a row never becomes less severe (GREEN < YELLOW <
\* RED), whatever balance is observed, a balance above the initial one
\* included; rows are never removed.
C18_StatusMonotone ==
  [][/\ Len(wallet_states') >= Len(wallet_states)
     /\ \A i \in DOMAIN wallet_states :
          Severity(wallet_states'[i].current_status)
            >= Severity(wallet_states[i].current_status)]_vars

\* a balance above the initial one was observed for a row that is not GREEN
C18_Witness ==
  \E i \in RowsOf(observed.mint_address, observed.wallet_address) :
    /\ observed.new_raw_balance > wallet_states[i].initial_raw_balance
    /\ wallet_states[i].current_status # "GREEN"

\* a step of apply_balance_change: the table or the observation changes and
\* no store task moves; observed' holds the arguments of the call
ObservationStep ==
  /\ store' = store
  /\ Len(wallet_states') = Len(wallet_states)
  /\ <<wallet_states', observed'>> # <<wallet_states, observed>>

\* C19: apply_balance_change(mint, wallet, new_raw_balance) sets, for each
\* row of the pair, with fraction = new_raw_balance / initial_raw_balance: a
\* GREEN row to YELLOW when 0.1 < fraction <= 0.5, every row to RED when
\* fraction <= 0.1 or the balance is zero, and leaves a row as it is when
\* fraction > 0.5.
C19_StatusFromRetainedFraction ==
  [][ObservationStep =>
       \A i \in RowsOf(observed'.mint_address, observed'.wallet_address) :
         LET new == observed'.new_raw_balance
             initial == wallet_states[i].initial_raw_balance
             was == wallet_states[i].current_status
             is == wallet_states'[i].current_status
         IN  /\ (was = "GREEN" /\ 10 * new > initial /\ 2 * new <= initial /\ new # 0)
                  => is = "YELLOW"
             /\ (10 * new <= initial \/ new = 0) => is = "RED"
             /\ 2 * new > initial => is = was]_vars

\* the last observation is a retained fraction of exactly 0.5 and its row is
\* YELLOW
C19_Witness ==
  \E i \in RowsOf(observed.mint_address, observed.wallet_address) :
    /\ 2 * observed.new_raw_balance = wallet_states[i].initial_raw_balance
    /\ wallet_states[i].current_status = "YELLOW"

\* --------------------------------------------------------- transaction parser
\* the amount of a (wallet, mint) pair in a snapshot, 0 when the pair has no
\* entry
SnapshotAmount(bal_list, wallet, mint) == BalanceMapGet(bal_list, <<wallet, mint>>)

\* C20: the extractor returns, for every (wallet, mint) pair of the pre- or
\* post-balance snapshot, the delta post - pre (a side without an entry
\* counting as 0), and returns exactly the pairs whose delta is not zero:
\* pairs that are in the pre-balance snapshot only and transactions whose
\* post-balance list is empty included.
C20_DeltasOfAllPairs ==
  parsed.done =>
    \A wallet \in BalanceOwners \ {"None"}, mint \in Mints :
      LET delta == SnapshotAmount(meta.postTokenBalances, wallet, mint)
                   - SnapshotAmount(meta.preTokenBalances, wallet, mint)
          triples == {c \in parsed.token_changes : c.wallet = wallet /\ c.mint = mint}
      IN  triples = IF delta = 0 THEN {}
                    ELSE {[wallet |-> wallet, mint |-> mint, raw_change |-> delta]}

\* ------------------------------------------------ parse_transaction_for_event
\* the transaction of the batch is a dict whose signature or block time is
\* missing and whose execution did not fail
MissingRequiredField(tx_data) ==
  /\ tx_data.kind = "dict" /\ ~tx_data.err
  /\ (tx_data.signature = "None" \/ tx_data.blockTime = -1)

\* the elements of the batch that the loop of the sweep has been through
DetailsProcessed ==
  IF fetch.pc \in {"parse", "done"} THEN 1 .. (fetch.i - 1) ELSE {}

\* C21: a transaction whose execution failed (meta.err set) produces no
\* events: parse_transaction_for_event returns None for it whatever its
\* balance snapshots are, and no element of the sweep's parsed_events (the
\* only events that are matched against classifications and alerted on) comes
\* from it.
C21_FailedTransactionNoEvents ==
  /\ (event.called /\ details[event.i].err) => event.result = NoEvent
  /\ \A k \in DOMAIN fetch.parsed_from : ~details[fetch.parsed_from[k]].err

\* the parser was called on a failed transaction that has a signature, a
\* block time and a balance change, and the sweep has been through it
C21_Witness ==
  /\ event.called
  /\ details[event.i].err
  /\ details[event.i].signature # "None" /\ details[event.i].blockTime # -1
  /\ details[event.i].meta.postTokenBalances # <<>>
  /\ event.i \in DetailsProcessed

\* C22: a transaction record without signature or without block time gets
\* the parser's error result, which carries no token changes; no call of
\* parse_transaction_for_event raises, whatever its input; and the sweep
\* skips such a record and goes on: it does not end in its exception handler
\* and every later record with a balance change is in parsed_events.
C22_MissingFieldsRejected ==
  /\ event.called => event.result.kind # "raise"
  /\ (event.called /\ MissingRequiredField(details[event.i]))
       => (event.result.kind = "error" /\ event.result.token_changes = {})
  /\ fetch.pc # "raised"
  /\ \A j \in DetailsProcessed :
       LET from == {fetch.parsed_from[k] : k \in DOMAIN fetch.parsed_from}
       IN  /\ MissingRequiredField(details[j]) => j \notin from
           /\ (/\ details[j].kind = "dict" /\ ~details[j].err
               /\ details[j].signature # "None" /\ details[j].blockTime # -1
               /\ details[j].meta.postTokenBalances # <<>>) => j \in from

\* the sweep has returned, its first record has no signature and its second
\* record is in parsed_events
C22_Witness ==
  /\ fetch.pc = "done"
  /\ Len(details) = 2
  /\ MissingRequiredField(details[1])
  /\ details[1].signature = "None"
  /\ fetch.parsed_from = <<2>>
  /\ event.called /\ event.i = 1

\* ------------------------------------------------------- classification errors
\* C23: a classification run aborts (returns at once with the error marker
\* set and creator, team, sniper and insider empty) if and only if its
\* metadata step fails, that is decimals or total supply are missing or
\* negative; the error marker of an aborted run comes with no result of a
\* holder fetch or of a listing-time lookup.
C23_AbortsIffMetadataFails ==
  /\ cls_in.stage = "metadata" =>
       LET failed == cls_in.metadata.decimals < 0 \/ cls_in.metadata.total_supply < 0
           aborted == /\ cls.pc = "done" /\ cls.error
                      /\ cls.creator = {} /\ cls.team = {}
                      /\ cls.sniper = {} /\ cls.insider = {}
       IN  aborted <=> failed
  /\ cls.error => (cls.pc = "done" /\ cls_in.stage = "metadata")

\* C24: when the listing time T0 cannot be determined, the run ends with
\* sniper and insider empty and the error marker set (a partial error), and
\* with creator and team as they were before the step, which is what they
\* are when T0 is available.
C24_UnknownListingTime ==
  [][(cls.pc = "transactions" /\ cls'.pc = "done" /\ ~cls_in'.fetched)
       => /\ cls'.sniper = {} /\ cls'.insider = {}
          /\ cls'.error
          /\ cls'.creator = cls.creator /\ cls'.team = cls.team]_vars

\* C25: when the holder fetch fails, the run goes on to the insider/sniper
\* step with team empty, the error marker set (a partial error) and creator
\* unchanged, as after an empty holder list.
C25_HolderFetchFails ==
  [][(cls.pc = "holders" /\ cls_in'.stage = "holders" /\ ~cls_in'.fetched)
       => /\ cls'.pc = "transactions"
          /\ cls'.team = {}
          /\ cls'.error
          /\ cls'.creator = cls.creator
          /\ cls'.sniper = cls.sniper /\ cls'.insider = cls.insider]_vars

\* ------------------------------------------------- subscription acknowledgments
\* The response to the oldest unanswered request is handled.
AckStep == websocket = "open" /\ wire # <<>> /\ wire' = Tail(wire)

\* A subscribe request sent after the oldest unanswered one carries the
\* current correlation id.
NewerSubscriptionRequested ==
  \E i \in 2 .. Len(wire) :
    wire[i].method = "transactionSubscribe" /\ wire[i].ts = local_request_id

\* C26: when the acknowledgment of an unsubscribe request for the current
\* subscription is handled, the confirmed subscription id becomes none (so
\* that no later notification with that id is dispatched), and with it the
\* correlation id and the confirmed filter set, unless they belong to a
\* subscription requested after the unsubscribe was sent: those an
\* unsubscribe acknowledgment leaves as they are.
C26_UnsubscribeAckClears ==
  [][(AckStep /\ Head(wire).method = "transactionUnsubscribe") =>
       /\ Head(wire).helius_id = helius_id =>
            /\ helius_id' = NoId
            /\ ~NewerSubscriptionRequested =>
                 (local_request_id' = NoId /\ active_filter' = {})
       /\ NewerSubscriptionRequested =>
            (local_request_id' = local_request_id /\ active_filter' = active_filter)]_vars

\* No call of _update_helius_subscription is under way and connect() has
\* returned on an open connection.
AllUpdatesFinished ==
  /\ websocket = "open"
  /\ connect_pc = "idle"
  /\ \A u \in UpdIds : upd[u].pc \in {"idle", "done"}

\* C27: once every reconciliation task spawned by add_account_to_monitor and
\* remove_account_to_monitor has finished on an open connection, the
\* confirmed filter set is the intended set (a part of it of the cap's size
\* when it exceeds the cap) and, when that set is not empty, the last
\* subscribe request written to the socket carried exactly the confirmed
\* filter set: no older task that fails or finishes late overwrites what a
\* newer one wrote.
C27_ConvergesToIntended ==
  AllUpdatesFinished =>
    /\ active_filter \in CappedIntended
    /\ \A i \in DOMAIN wire :
         (/\ intended # {}
          /\ wire[i].method = "transactionSubscribe"
          /\ \A j \in DOMAIN wire : j > i => wire[j].method # "transactionSubscribe")
           => wire[i].accounts = active_filter

\* The subscribe requests among the requests i of the wire.
SubscribeRequestsAt(S) == {i \in S : wire[i].method = "transactionSubscribe"}

\* C28: the subscribe requests written to a connection carry pairwise
\* distinct correlation ids, and the confirmed subscription id is set only
\* when the acknowledgment of the most recently sent subscribe request is
\* handled, its correlation id being the current one: the acknowledgment of a
\* superseded request never sets it.
C28_DistinctCorrelationIds ==
  [][/\ \A i, j \in SubscribeRequestsAt(DOMAIN wire) : i # j => wire[i].ts # wire[j].ts
     /\ (helius_id' # helius_id /\ helius_id' # NoId) =>
          /\ AckStep
          /\ Head(wire).method = "transactionSubscribe"
          /\ Head(wire).ts = local_request_id
          /\ SubscribeRequestsAt(2 .. Len(wire)) = {}]_vars

\* The send of the subscribe request of call u raises.
SendFails(u) ==
  /\ upd[u].pc = "send_sub" /\ upd'[u].pc # "send_sub"
  /\ websocket # "open"
  /\ start_pc' = start_pc

\* C29: when the send of a subscribe request fails, the confirmed filter set
\* is afterwards the set the call found before its attempt, and that set is
\* not the list that was not sent.
C29_RollbackOnFailedSend ==
  [][\A u \in UpdIds : SendFails(u) =>
       /\ active_filter' = upd[u].prev
       /\ ~upd[u].same]_vars

\* C29 as amended: the set restored is the unsent list only when that list
\* has the size of the cap on accounts per subscription (the intended set
\* was truncated to the set the call found).
C29_RollbackToEarlierSet ==
  [][\A u \in UpdIds : SendFails(u) =>
       /\ active_filter' = upd[u].prev
       /\ upd[u].same => Cardinality(upd[u].prev) = MAX_ACCOUNTS_PER_SUBSCRIPTION]_vars

\* the socket is closed, no call is in a send, and the confirmed filter set
\* is a non-empty set other than the list of the last subscribe request
\* written: that request's optimistic update has been reverted
C29_Witness ==
  /\ websocket = "closed"
  /\ \A u \in UpdIds : ~Sending(u)
  /\ active_filter # {}
  /\ \E i \in SubscribeRequestsAt(DOMAIN wire) :
       /\ SubscribeRequestsAt((i + 1) .. Len(wire)) = {}
       /\ wire[i].accounts # active_filter
       /\ wire[i].accounts # {}


\* A wait of one of the two tasks on this connection ended in its timeout.
TimedOut(task) == task.pc = "exited" /\ task.why = "timeout" /\ task.conn = conn

BothLoopsExited ==
  /\ ping.pc = "exited" /\ ping.conn = conn
  /\ listen.pc = "exited" /\ listen.conn = conn

\* C30: when the pong does not arrive within the pong timeout, or no message
\* within the receive timeout, the socket is closed, both loops exit and the
\* reconnect loop calls connect() again (while connections remain in the
\* bound); and the receive timeout exceeds ping interval plus pong timeout.
C30_TimeoutForcesReconnect ==
  /\ [](RECEIVE_TIMEOUT_SECONDS > PING_INTERVAL_SECONDS + PING_TIMEOUT_SECONDS)
  /\ [](ping.pc = "pong_wait" /\ websocket = "open" => ping.timer <= PING_TIMEOUT_SECONDS)
  /\ [](listen.pc = "recv" /\ websocket = "open" => listen.timer <= RECEIVE_TIMEOUT_SECONDS)
  /\ [](TimedOut(ping) \/ TimedOut(listen) => websocket # "open")
  /\ (TimedOut(ping) \/ TimedOut(listen)) ~> (BothLoopsExited /\ websocket # "open")
  /\ ((TimedOut(ping) \/ TimedOut(listen)) /\ conn < MaxConnections) ~> (connect_pc = "connecting")

C30_Witness ==
  /\ connect_pc = "connecting"
  /\ conn > 0
  /\ BothLoopsExited
  /\ TimedOut(ping) \/ TimedOut(listen)


\* --------------------------------------------------------- connection states
\* The state of the connection: RECONFIGURING while the open socket carries a
\* request whose send has not returned.
ConnState ==
  IF connect_pc = "connecting" THEN "CONNECTING"
  ELSE IF websocket # "open" THEN "DISCONNECTED"
  ELSE IF \E u \in UpdIds : Sending(u) THEN "RECONFIGURING"
  ELSE "CONNECTED"

\* The edges of the state machine.  connect() sends its request in the step
\* that opens the socket, so CONNECTED may be passed within the step; an
\* attempt that fails, and a socket that closes, lead to DISCONNECTED.
ConnEdges ==
  {<<"DISCONNECTED", "CONNECTING">>, <<"CONNECTING", "CONNECTED">>,
   <<"CONNECTING", "RECONFIGURING">>, <<"CONNECTED", "RECONFIGURING">>,
   <<"RECONFIGURING", "CONNECTED">>, <<"CONNECTED", "DISCONNECTED">>,
   <<"RECONFIGURING", "DISCONNECTED">>, <<"CONNECTING", "DISCONNECTED">>}

\* A step in which some call of _update_helius_subscription starts a send.
RequestSent == \E u \in UpdIds : ~Sending(u) /\ upd'[u].pc \in {"send_sub", "send_unsub"}

\* The call of connect() that waited for the lock returns in this step.
WaiterReturns == lock_waiting /\ ~lock_waiting' /\ connect_pc' = "idle"

SubscribeBuilt == \E u \in UpdIds : upd[u].pc # "send_sub" /\ upd'[u].pc = "send_sub"

\* A step in which a send of a subscribe request returns or raises.
SubscribeReturns == \E u \in UpdIds : upd[u].pc = "send_sub" /\ upd'[u].pc # "send_sub"

\* C32: the confirmed filter set never holds more accounts than the maximum
\* per subscription; whenever it changes it becomes empty, or a part of the
\* intended set of the request built in that step, or the set a failed send
\* restores, which was the confirmed filter set before; and a reconciliation
\* step that finds more intended accounts than the maximum still sends a
\* request, cut to the maximum.
C32_FilterWithinCap ==
  /\ [](/\ Cardinality(active_filter) <= MAX_ACCOUNTS_PER_SUBSCRIPTION
        /\ \A u \in UpdIds :
             Sending(u) => Cardinality(upd[u].prev) <= MAX_ACCOUNTS_PER_SUBSCRIPTION)
  /\ [][/\ active_filter' # active_filter =>
             \/ active_filter' = {}
             \/ SubscribeBuilt /\ active_filter' \subseteq intended
             \/ \E u \in UpdIds : /\ upd[u].pc = "send_sub" /\ upd'[u].pc # "send_sub"
                                  /\ active_filter' = upd[u].prev
        /\ SubscribeBuilt => /\ active_filter' \subseteq intended
                             /\ wire'[Len(wire')].accounts = active_filter'
        /\ (/\ ReconciliationStep
            /\ Cardinality(intended) > MAX_ACCOUNTS_PER_SUBSCRIPTION) =>
             /\ SubscribeBuilt
             /\ Len(wire') = Len(Carried) + 1
             /\ Cardinality(active_filter') = MAX_ACCOUNTS_PER_SUBSCRIPTION]_vars

C32_Witness ==
  /\ Cardinality(intended) > MAX_ACCOUNTS_PER_SUBSCRIPTION
  /\ \E u \in UpdTasks : upd[u].pc = "send_sub" /\ upd[u].prev # {}
  /\ Cardinality(active_filter) = MAX_ACCOUNTS_PER_SUBSCRIPTION
  /\ active_filter \subseteq intended
  /\ wire # <<>>
  /\ wire[Len(wire)].accounts = active_filter


\* wallet has no buy among the transactions just processed
NeverBuys(wallet) ==
  \A i \in DOMAIN cls_in.rows : cls_in.rows[i].wallet = wallet => ~cls_in.rows[i].is_buy

\* C33: in a run of the detector with listing time T, a wallet outside the
\* team whose only buys are exactly at T is neither sniper nor insider, one
\* whose only buys are exactly at the end of the sniper window is sniper, one
\* whose only buys are exactly at the end of the insider window is insider;
\* no wallet is in both sets on account of buys at a single timestamp; and a
\* wallet that only sells is in neither set.
C33_HalfOpenWindows ==
  (TransactionsProcessed /\ cls.engine = "detector") =>
    \A wallet \in Wallets \ cls.team :
      /\ BuysOnlyAt(wallet, 0) => wallet \notin cls.sniper \cup cls.insider
      /\ BuysOnlyAt(wallet, SNIPER_WINDOW_SECONDS) =>
           wallet \in cls.sniper /\ wallet \notin cls.insider
      /\ BuysOnlyAt(wallet, INSIDER_WINDOW_MINUTES * 60) =>
           wallet \in cls.insider /\ wallet \notin cls.sniper
      /\ \A offset \in TxOffsets :
           BuysOnlyAt(wallet, offset) => ~(wallet \in cls.sniper /\ wallet \in cls.insider)
      /\ NeverBuys(wallet) => wallet \notin cls.sniper \cup cls.insider

\* one wallet buys at the end of the sniper window, the other at the end of
\* the insider window
C33_Witness ==
  /\ TransactionsProcessed
  /\ cls.engine = "detector"
  /\ \E wallet \in cls.sniper : BuysOnlyAt(wallet, SNIPER_WINDOW_SECONDS)
  /\ \E wallet \in cls.insider : BuysOnlyAt(wallet, INSIDER_WINDOW_MINUTES * 60)


\* The accounts of owner in the snapshot just processed.
AccountsOf(owner) == {i \in DOMAIN cls_in.rows : cls_in.rows[i].owner = owner}

\* The raw total of owner over its accounts with a positive balance.
RECURSIVE SumOver(_)
SumOver(accounts) ==
  IF accounts = {} THEN 0
  ELSE LET i == CHOOSE j \in accounts : TRUE
       IN  (IF cls_in.rows[i].amount > 0 THEN cls_in.rows[i].amount ELSE 0)
           + SumOver(accounts \ {i})

AtThreshold(raw) == raw * 100 >= TEAM_HOLDING_PERCENT_THRESHOLD * cls.total_supply_raw

\* C34: after the holder snapshot of a run is processed, an owner that is
\* neither creator nor a known program and has several accounts, each below
\* 5% of the supply, is in team when the total of its accounts is at least
\* 5%; and accounts with a balance of zero or less add nothing to the total:
\* an owner in team has at least 5% in its accounts with a positive balance.
C34_ThresholdOnOwnerTotal ==
  HoldersProcessed =>
    \A owner \in Owners \ (cls.creator \cup KNOWN_PROGRAM_IDS) :
      /\ (/\ Cardinality(AccountsOf(owner)) >= 2
          /\ \A i \in AccountsOf(owner) : ~AtThreshold(cls_in.rows[i].amount)
          /\ AtThreshold(SumOver(AccountsOf(owner)))) => owner \in cls.team
      /\ owner \in cls.team => AtThreshold(SumOver(AccountsOf(owner)))


\* The rows the table holds are kept as they are, the status apart.
RowsKept ==
  \A i \in DOMAIN wallet_states :
    /\ i \in DOMAIN wallet_states'
    /\ wallet_states'[i].mint_address = wallet_states[i].mint_address
    /\ wallet_states'[i].wallet_address = wallet_states[i].wallet_address
    /\ wallet_states'[i].classification = wallet_states[i].classification

\* C35: the role of a row is the role that the classification run which
\* launched the creating task gave the wallet; no step changes the role of a
\* row the table holds; and no task creates a row for a pair that has a row
\* with a different role.
C35_RoleIsPermanent ==
  [][/\ RowsKept
     /\ \A t \in StoreTasks : Creates(t) =>
          /\ wallet_states'[Len(wallet_states')].classification = store[t].classification
          /\ \A i \in RowsOf(store[t].mint_address, store[t].wallet_address) :
               wallet_states[i].classification = store[t].classification]_vars


\* some balance entry of the transaction has no owner
SomeOwnerMissing(m) ==
  \E bal_list \in {m.preTokenBalances, m.postTokenBalances} :
    \E i \in DOMAIN bal_list : bal_list[i].owner = "None"

\* C36: when some balance entries of the transaction have no owner, the
\* extractor still returns, for every (wallet, mint) pair of the entries that
\* have one, the delta post - pre when it is not zero, wherever the entries
\* without owner stand in the two lists.
C36_OwnerlessEntriesSkipped ==
  (parsed.done /\ SomeOwnerMissing(meta)) =>
    \A wallet \in BalanceOwners \ {"None"}, mint \in Mints :
      LET delta == SnapshotAmount(meta.postTokenBalances, wallet, mint)
                   - SnapshotAmount(meta.preTokenBalances, wallet, mint)
      IN  delta # 0 =>
            [wallet |-> wallet, mint |-> mint, raw_change |-> delta] \in parsed.token_changes


\* ----------------------------------------------------- last-processed marker
\* C37: the sweep's marker of a mint never advances past a transaction that
\* was not fetched and parsed: every transaction up to the marker has been
\* fetched and parsed by some cycle (so that one whose detail fetch failed is
\* still after the marker and is fetched again by a later cycle), and a cycle
\* whose signature fetch fails leaves the marker as it is.
C37_MarkerBehindProcessed ==
  /\ [](\A s \in 1..last_sig : s \in processed_sigs)
  /\ [][sweep.pc = "signatures" /\ sweep'.pc = "idle" => last_sig' = last_sig]_vars


\* ---------------------------------------------------------- delivery failures
\* C38: a delivery failure of any kind never stops the consumer: no exception
\* leaves send_telegram_notification for the loop's handler, the consumer
\* goes from the failed delivery to its delay exactly as from a successful
\* one (still running, its queue untouched), and the alerts behind keep being
\* taken one at a time from the head of the queue.
C38_FailureDoesNotStopConsumer ==
  /\ [](processor_task # "error_sleep")
  /\ [][send_failures' # send_failures =>
          /\ processor_task = "send" /\ processor_task' = "sleep"
          /\ processor_exit' = processor_exit
          /\ notification_queue' = notification_queue
          /\ running' = running]_vars
  /\ [][attempts' # attempts =>
          /\ processor_task \in {"created", "sleep", "get"}
          /\ processor_task' = "send"
          /\ notification_queue # <<>>
          /\ attempts' = [attempts EXCEPT ![Head(notification_queue)] = @ + 1]
          /\ notification_queue' = Tail(notification_queue)]_vars

\* a delivery has failed and the consumer, still running, is delivering the
\* alert that was queued behind the failed one
C38_Witness ==
  /\ send_failures >= 1
  /\ processor_task = "send"
  /\ processor_exit = "none"
  /\ running
  /\ \E a, b \in Alerts : a # b /\ attempts[a] = 1 /\ attempts[b] = 1


\* -------------------------------------------------------------- queue capacity
\* a call of queue_notification is made in this step
QueueNotificationCalled == queue_call'.tick # queue_call.tick

\* the call appended its notification and returned without suspending
CompletedAtOnce ==
  /\ queue_call'.queued /\ queue_call'.returned = "None"
  /\ notification_queue' = Append(notification_queue, queue_call'.notification)

\* C39 as stated: an enqueue issued while the queue holds at least 90% of its
\* capacity but is not full logs the capacity warning and completes without
\* suspending (the warning fires at exactly 90%, not only above).
C39_WarningFromNinetyPercent ==
  [][(/\ QueueNotificationCalled /\ running
      /\ Len(notification_queue) * 10 >= maxsize * 9
      /\ Len(notification_queue) < maxsize)
       => queue_call'.warned /\ CompletedAtOnce]_vars

\* C39 amended: the warning is logged by an enqueue exactly when the queue
\* holds more than 90% of its capacity (none at exactly 90%), and whenever
\* the queue is not full the enqueue completes without suspending.
C39_WarningAboveNinetyPercent ==
  [][QueueNotificationCalled /\ running =>
       /\ queue_call'.warned <=> Len(notification_queue) * 10 > maxsize * 9
       /\ Len(notification_queue) < maxsize => CompletedAtOnce]_vars

\* an enqueue found the queue above 90% and not full, logged the warning and
\* completed
C39_Witness ==
  /\ queue_call.warned /\ queue_call.queued
  /\ queue_call.qsize * 10 > maxsize * 9
  /\ queue_call.qsize < maxsize
  /\ Len(notification_queue) = queue_call.qsize + 1

\* C40: an alert submitted while the dispatcher is not running is not
\* enqueued and never delivered (alerts are delivered only as often as they
\* entered the queue), the call leaves the queue as it is and returns to
\* the producer as a call that queued does.
C40_StoppedDispatcherDrops ==
  /\ [][QueueNotificationCalled /\ ~running =>
          /\ ~queue_call'.queued /\ ~queue_call'.warned
          /\ queue_call'.returned = "None"
          /\ notification_queue' = notification_queue
          /\ enqueued' = enqueued /\ attempts' = attempts]_vars
  /\ [](\A a \in Alerts :
          attempts[a] + Occurrences(notification_queue, a) <= enqueued[a])

\* an alert was submitted after stop() had begun and dropped, with the
\* sentinel still queued
C40_Witness ==
  /\ ~running /\ stop_pc = "wait"
  /\ queue_call.returned = "None" /\ ~queue_call.queued
  /\ queue_call.qsize = Len(notification_queue)
  /\ notification_queue # <<>>
====
